---- MODULE Spec2Model ----
(***************************************************************************)
(* A model of the text-analysis engines of the antigravity revenue engine: *)
(* the tokenizer, the sentence splitter, the sentiment analyzer, the       *)
(* keyword extractor and the named-entity recognizer, each with its        *)
(* prefix-keyed result cache.  Texts are ASCII strings; a character is a   *)
(* string of length one and positions are the 0-based offsets of the code. *)
(* Character classes list the ASCII characters except the backquote.       *)
(***************************************************************************)
EXTENDS Integers, Sequences, FiniteSets, TLC

(* ---------------------------------------------------------------------- *)
(* Strings as the code uses them                                           *)
(* ---------------------------------------------------------------------- *)

\* s.charAt(i) / s[i], 0-based; "" beyond the end
CharAt(s, i) ==
  IF i >= 0 /\ i < Len(s) THEN SubSeq(s, i + 1, i + 1) ELSE ""

\* s.substring(a, b) with both ends clamped to [0, length]
Substring(s, a, b) ==
  LET lo == IF a < 0 THEN 0 ELSE IF a > Len(s) THEN Len(s) ELSE a
      hi == IF b < 0 THEN 0 ELSE IF b > Len(s) THEN Len(s) ELSE b
  IN IF lo <= hi THEN SubSeq(s, lo + 1, hi) ELSE SubSeq(s, hi + 1, lo)

CharsOf(s) ==
  {SubSeq(s, i, i) : i \in 1..Len(s)}

LowerLetters ==
  "abcdefghijklmnopqrstuvwxyz"

UpperLetters ==
  "ABCDEFGHIJKLMNOPQRSTUVWXYZ"

Digits ==
  CharsOf("0123456789")

Letters ==
  CharsOf(LowerLetters) \cup CharsOf(UpperLetters)

\* the regular-expression class \w
WordChars ==
  Letters \cup Digits \cup {"_"}

\* the regular-expression class \s, restricted to ASCII
SpaceChars ==
  {" ", "\t", "\n", "\r"}

LowerOf ==
  [c \in CharsOf(UpperLetters) |->
     LET i == CHOOSE k \in 1..26 : SubSeq(UpperLetters, k, k) = c
     IN SubSeq(LowerLetters, i, i)]

UpperOf ==
  [c \in CharsOf(LowerLetters) |->
     LET i == CHOOSE k \in 1..26 : SubSeq(LowerLetters, k, k) = c
     IN SubSeq(UpperLetters, i, i)]

LowerChar(c) ==
  IF c \in DOMAIN LowerOf THEN LowerOf[c] ELSE c

UpperChar(c) ==
  IF c \in DOMAIN UpperOf THEN UpperOf[c] ELSE c

RECURSIVE ToLowerCase(_)
\* String.prototype.toLowerCase, by halves
ToLowerCase(s) ==
  IF Len(s) = 0 THEN ""
  ELSE IF Len(s) = 1 THEN LowerChar(s)
  ELSE ToLowerCase(SubSeq(s, 1, Len(s) \div 2))
       \o ToLowerCase(SubSeq(s, Len(s) \div 2 + 1, Len(s)))

\* the least element of a range from..to with property P, or none when there
\* is no such element
First(from, to, P(_), none) ==
  IF \E i \in from..to : P(i)
  THEN CHOOSE i \in from..to : P(i) /\ \A j \in from..(i - 1) : ~P(j)
  ELSE none

\* s.indexOf(x, from): the first offset >= from where x occurs, -1 if none
IndexOfFrom(s, x, from) ==
  First(from, Len(s) - Len(x), LAMBDA i : SubSeq(s, i + 1, i + Len(x)) = x, -1)

\* s.endsWith(x)
EndsWith(s, x) ==
  Len(x) <= Len(s) /\ SubSeq(s, Len(s) - Len(x) + 1, Len(s)) = x

IsSpace(c) ==
  c \in SpaceChars

\* the first offset at or after i whose character is outside the class
SkipWhile(s, i, class) ==
  First(i, Len(s), LAMBDA j : j >= Len(s) \/ SubSeq(s, j + 1, j + 1) \notin class, Len(s))

\* String.prototype.trim
Trim(s) ==
  LET start == SkipWhile(s, 0, SpaceChars)
      end == First(0, Len(s) - start,
                   LAMBDA k : k = Len(s) - start \/ SubSeq(s, Len(s) - k, Len(s) - k) \notin SpaceChars,
                   0)
  IN SubSeq(s, start + 1, Len(s) - end)

RECURSIVE ConcatRange(_, _, _, _)
\* f[lo] \o f[lo+1] \o ... \o f[hi], by halves; empty when lo > hi
ConcatRange(f, lo, hi, empty) ==
  IF lo > hi THEN empty
  ELSE IF lo = hi THEN f[lo]
  ELSE ConcatRange(f, lo, (lo + hi) \div 2, empty)
       \o ConcatRange(f, (lo + hi) \div 2 + 1, hi, empty)

\* the concatenation of a sequence of strings
Concat(ss) ==
  ConcatRange(ss, 1, Len(ss), "")

\* the concatenation of a sequence of sequences
Flatten(ss) ==
  ConcatRange(ss, 1, Len(ss), <<>>)

\* the elements of a finite set of integers in increasing order
SortedSeq(S) ==
  [k \in 1..Cardinality(S) |-> CHOOSE x \in S : Cardinality({y \in S : y < x}) = k - 1]

Range(f) ==
  {f[i] : i \in DOMAIN f}

RECURSIVE Repeat(_, _)
\* String.prototype.repeat, by halves
Repeat(s, n) ==
  IF n <= 0 THEN ""
  ELSE IF n = 1 THEN s
  ELSE Repeat(s, n \div 2) \o Repeat(s, n - n \div 2)

\* an object literal given as key/value pairs: a later pair with the same key
\* replaces an earlier one
ObjectOf(pairs) ==
  [k \in {pairs[i][1] : i \in DOMAIN pairs} |->
     LET I == {i \in DOMAIN pairs : pairs[i][1] = k}
     IN pairs[CHOOSE i \in I : \A j \in I : j <= i][2]]

\* what a property of Object.prototype reads as on a plain object literal
ObjectFn ==
  "function Object() { [native code] }"

\* the lower-case property names every object literal inherits
InheritedKeys ==
  {"constructor"}

\* if (obj[key]) on an object literal whose own values are all truthy: an own
\* property, or one inherited from Object.prototype
Truthy(obj, key) ==
  key \in DOMAIN obj \/ key \in InheritedKeys

\* a function as a table: the value at each element of its domain computed once
Table(f) ==
  f @@ <<>>

\* In(value), with the value computed once before it is used
Let(value, In(_)) ==
  CHOOSE r \in {In(x) : x \in {value}} : TRUE

\* the least element of a set of positive integers, 0 for the empty set
Least(I) ==
  IF I = {} THEN 0 ELSE CHOOSE k \in I : \A j \in I : k <= j
(* ---------------------------------------------------------------------- *)
(* Regular expressions: a backtracking matcher over syntax trees           *)
(* ---------------------------------------------------------------------- *)

\* a character class; neg is the leading ^ inside the brackets
Set(chars, neg) ==
  [t |-> "set", s |-> chars, neg |-> neg]

\* a literal string
Lit(str) ==
  [t |-> "lit", s |-> str]

\* a sequence of sub-expressions
Cat(parts) ==
  [t |-> "cat", a |-> parts]

\* alternatives, tried left to right
Alt(parts) ==
  [t |-> "alt", a |-> parts]

\* a greedy repetition {min,max}
Rep(r, min, max) ==
  [t |-> "rep", r |-> r, min |-> min, max |-> max, unbounded |-> FALSE]

\* a greedy repetition without upper limit: {min,}, and * and + with min 0 and 1
Many(r, min) ==
  [t |-> "rep", r |-> r, min |-> min, max |-> min, unbounded |-> TRUE]

\* alternatives of literal strings: (a|b|c)
Words(strs) ==
  Alt([i \in DOMAIN strs |-> Lit(strs[i])])

WB ==
  [t |-> "wb"]

BOL ==
  [t |-> "bol"]

EOL ==
  [t |-> "eol"]

\* does character c belong to the class, under the i flag when ci
InClass(c, re, ci) ==
  (c \in re.s \/ (ci /\ (LowerChar(c) \in re.s \/ UpperChar(c) \in re.s))) # re.neg

\* does the literal occur at offset i, under the i flag when ci
LitAt(s, i, lit, ci) ==
  /\ i + Len(lit) <= Len(s)
  /\ LET piece == SubSeq(s, i + 1, i + Len(lit))
     IN IF ci THEN ToLowerCase(piece) = ToLowerCase(lit) ELSE piece = lit

RECURSIVE Ends(_, _, _, _)
RECURSIVE CatEnds(_, _, _, _, _)
RECURSIVE RepEnds(_, _, _, _, _)
\* the offsets at which a match of re starting at offset i may end, in the
\* order a backtracking matcher tries them
Ends(re, s, i, ci) ==
  CASE re.t = "set" ->
         IF i < Len(s) /\ InClass(CharAt(s, i), re, ci) THEN <<i + 1>> ELSE <<>>
    [] re.t = "lit" ->
         IF LitAt(s, i, re.s, ci) THEN <<i + Len(re.s)>> ELSE <<>>
    [] re.t = "cat" -> CatEnds(re.a, 1, s, i, ci)
    [] re.t = "alt" ->
         Flatten([k \in DOMAIN re.a |-> Ends(re.a[k], s, i, ci)])
    [] re.t = "rep" -> RepEnds(re, s, i, 0, ci)
    [] re.t = "wb" ->
         IF (CharAt(s, i - 1) \in WordChars) # (CharAt(s, i) \in WordChars)
         THEN <<i>> ELSE <<>>
    [] re.t = "bol" -> IF i = 0 THEN <<i>> ELSE <<>>
    [] re.t = "eol" -> IF i = Len(s) THEN <<i>> ELSE <<>>

CatEnds(parts, k, s, i, ci) ==
  IF k > Len(parts) THEN <<i>>
  ELSE LET es == Ends(parts[k], s, i, ci)
       IN Flatten([j \in DOMAIN es |-> CatEnds(parts, k + 1, s, es[j], ci)])

RepEnds(re, s, i, n, ci) ==
  IF re.r.t = "set" /\ n = 0
  THEN \* a run of one class: the longest run first, then shorter ones
       LET Run(most, count) ==
             [k \in 1..(IF count < 0 THEN 0 ELSE count) |-> most - k + 1]
           Longest(most) == Run(most, most - (i + re.min) + 1)
           Capped(stop) ==
             Longest(IF ~re.unbounded /\ stop - i > re.max THEN i + re.max ELSE stop)
       IN Capped(First(i, Len(s),
                       LAMBDA j : j >= Len(s) \/ ~InClass(CharAt(s, j), re.r, ci), Len(s)))
  ELSE
  LET Closing(more) == IF n >= re.min THEN more \o <<i>> ELSE more
      Deeper(es) ==
        Closing(Flatten([j \in DOMAIN es |->
               IF es[j] > i THEN RepEnds(re, s, es[j], n + 1, ci) ELSE <<>>]))
  IN Deeper(IF re.unbounded \/ n < re.max THEN Ends(re.r, s, i, ci) ELSE <<>>)

\* re.test(s) for an expression without the g flag
Test(re, s, ci) ==
  \E i \in 0..Len(s) : Ends(re, s, i, ci) # <<>>

\* re.exec(s) with lastIndex = from: the leftmost match at or after from as
\* <<start, end>>, or <<>> when there is none
ExecFrom(re, s, from, ci) ==
  LET MatchAt(start) ==
        IF start = -1 THEN <<>> ELSE <<start, Ends(re, s, start, ci)[1]>>
  IN MatchAt(First(from, Len(s), LAMBDA i : Ends(re, s, i, ci) # <<>>, -1))

RECURSIVE MatchAll(_, _, _, _)
\* every match of a g-flagged expression, left to right, as <<start, end>>;
\* after an empty match the scan moves on by one character
MatchAll(re, s, from, ci) ==
  LET Rest(m) ==
        IF m = <<>> THEN <<>>
        ELSE <<m>> \o MatchAll(re, s, IF m[2] = m[1] THEN m[2] + 1 ELSE m[2], ci)
  IN Rest(ExecFrom(re, s, from, ci))
(* ---------------------------------------------------------------------- *)
(* Numbers: exact fractions in lowest terms, and NaN                       *)
(* ---------------------------------------------------------------------- *)

RECURSIVE GCD(_, _)
GCD(a, b) ==
  IF b = 0 THEN a ELSE GCD(b, a % b)

Abs(a) ==
  IF a < 0 THEN -a ELSE a

\* the result of arithmetic on a value that is not a number
NaN ==
  [n |-> 0, d |-> 0]

IsNaN(x) ==
  x.d = 0

\* the number n/d in lowest terms with a positive denominator; 0/0 is NaN
Num(n, d) ==
  IF d = 0 THEN NaN
  ELSE LET g == GCD(Abs(n), Abs(d))
           sign == IF d < 0 THEN -1 ELSE 1
       IN [n |-> sign * (n \div g), d |-> sign * (d \div g)]

Zero ==
  Num(0, 1)

One ==
  Num(1, 1)

Add(x, y) ==
  IF IsNaN(x) \/ IsNaN(y) THEN NaN ELSE Num(x.n * y.d + y.n * x.d, x.d * y.d)

Sub(x, y) ==
  IF IsNaN(x) \/ IsNaN(y) THEN NaN ELSE Num(x.n * y.d - y.n * x.d, x.d * y.d)

Mul(x, y) ==
  IF IsNaN(x) \/ IsNaN(y) THEN NaN ELSE Num(x.n * y.n, x.d * y.d)

\* x / y for y # 0
Div(x, y) ==
  IF IsNaN(x) \/ IsNaN(y) THEN NaN ELSE Num(x.n * y.d, x.d * y.n)

\* x < y; every comparison with NaN is false
Less(x, y) ==
  ~IsNaN(x) /\ ~IsNaN(y) /\ x.n * y.d < y.n * x.d

\* x <= y; every comparison with NaN is false
LessEq(x, y) ==
  ~IsNaN(x) /\ ~IsNaN(y) /\ x.n * y.d <= y.n * x.d

\* Math.min: NaN when either argument is NaN
Min(x, y) ==
  IF IsNaN(x) \/ IsNaN(y) THEN NaN ELSE IF LessEq(x, y) THEN x ELSE y

\* Math.max: NaN when either argument is NaN
Max(x, y) ==
  IF IsNaN(x) \/ IsNaN(y) THEN NaN ELSE IF LessEq(x, y) THEN y ELSE x

\* Math.abs
AbsNum(x) ==
  IF IsNaN(x) THEN NaN ELSE Num(Abs(x.n), x.d)

(* ---------------------------------------------------------------------- *)
(* Tokenizer: word lists, lemma rules and part-of-speech tables            *)
(* ---------------------------------------------------------------------- *)

STOP_WORDS ==
  {
    "a", "an", "the", "and", "or", "but", "in", "on", "at", "to", "for", "of", "with", "by",
    "from", "up", "about", "into", "through", "during", "before", "after", "above", "below",
    "between", "under", "again", "further", "then", "once", "here", "there", "when", "where",
    "why", "how", "all", "each", "few", "more", "most", "other", "some", "such", "no", "nor",
    "not", "only", "own", "same", "so", "than", "too", "very", "s", "t", "can", "will", "just",
    "don", "should", "now", "i", "me", "my", "myself", "we", "our", "ours", "ourselves", "you",
    "your", "yours", "yourself", "yourselves", "he", "him", "his", "himself", "she", "her",
    "hers", "herself", "it", "its", "itself", "they", "them", "their", "theirs", "themselves",
    "what", "which", "who", "whom", "this", "that", "these", "those", "am", "is", "are", "was",
    "were", "be", "been", "being", "have", "has", "had", "having", "do", "does", "did",
    "doing", "would", "could", "ought", "as", "until", "while", "if", "because", "against",
    "both", "any", "over"
  }

\* suffix rules in the order they are tried
LEMMA_RULES ==
  <<
    [suffix |-> "ing", replacement |-> "", minLength |-> 5, pos |-> {"VERB"}],
    [suffix |-> "ying", replacement |-> "y", minLength |-> 5, pos |-> {"VERB"}],
    [suffix |-> "ied", replacement |-> "y", minLength |-> 4, pos |-> {"VERB"}],
    [suffix |-> "ies", replacement |-> "y", minLength |-> 4, pos |-> {"VERB"}],
    [suffix |-> "ed", replacement |-> "", minLength |-> 4, pos |-> {"VERB"}],
    [suffix |-> "es", replacement |-> "", minLength |-> 4, pos |-> {"VERB"}],
    [suffix |-> "s", replacement |-> "", minLength |-> 4, pos |-> {"VERB", "NOUN"}],
    [suffix |-> "ies", replacement |-> "y", minLength |-> 4, pos |-> {"NOUN"}],
    [suffix |-> "ves", replacement |-> "f", minLength |-> 4, pos |-> {"NOUN"}],
    [suffix |-> "xes", replacement |-> "x", minLength |-> 4, pos |-> {"NOUN"}],
    [suffix |-> "zes", replacement |-> "z", minLength |-> 4, pos |-> {"NOUN"}],
    [suffix |-> "ches", replacement |-> "ch", minLength |-> 5, pos |-> {"NOUN"}],
    [suffix |-> "shes", replacement |-> "sh", minLength |-> 5, pos |-> {"NOUN"}],
    [suffix |-> "ses", replacement |-> "s", minLength |-> 4, pos |-> {"NOUN"}],
    [suffix |-> "men", replacement |-> "man", minLength |-> 4, pos |-> {"NOUN"}],
    [suffix |-> "er", replacement |-> "", minLength |-> 4, pos |-> {"ADJ"}],
    [suffix |-> "est", replacement |-> "", minLength |-> 5, pos |-> {"ADJ"}],
    [suffix |-> "ier", replacement |-> "y", minLength |-> 4, pos |-> {"ADJ"}],
    [suffix |-> "iest", replacement |-> "y", minLength |-> 5, pos |-> {"ADJ"}],
    [suffix |-> "ly", replacement |-> "", minLength |-> 4, pos |-> {"ADV"}],
    [suffix |-> "ness", replacement |-> "", minLength |-> 6, pos |-> {"NOUN"}],
    [suffix |-> "ment", replacement |-> "", minLength |-> 6, pos |-> {"NOUN"}],
    [suffix |-> "tion", replacement |-> "te", minLength |-> 6, pos |-> {"NOUN"}],
    [suffix |-> "ation", replacement |-> "", minLength |-> 7, pos |-> {"NOUN"}],
    [suffix |-> "ity", replacement |-> "", minLength |-> 5, pos |-> {"NOUN"}],
    [suffix |-> "able", replacement |-> "", minLength |-> 6, pos |-> {"ADJ"}],
    [suffix |-> "ible", replacement |-> "", minLength |-> 6, pos |-> {"ADJ"}],
    [suffix |-> "ful", replacement |-> "", minLength |-> 5, pos |-> {"ADJ"}],
    [suffix |-> "less", replacement |-> "", minLength |-> 6, pos |-> {"ADJ"}],
    [suffix |-> "ous", replacement |-> "", minLength |-> 5, pos |-> {"ADJ"}],
    [suffix |-> "ive", replacement |-> "", minLength |-> 5, pos |-> {"ADJ"}]
  >>

IRREGULAR_VERBS ==
  ObjectOf(<<
    <<"was", "be">>, <<"were", "be">>, <<"been", "be">>, <<"being", "be">>, <<"am", "be">>,
    <<"is", "be">>, <<"are", "be">>, <<"had", "have">>, <<"has", "have">>,
    <<"having", "have">>, <<"did", "do">>, <<"does", "do">>, <<"doing", "do">>,
    <<"done", "do">>, <<"went", "go">>, <<"goes", "go">>, <<"going", "go">>, <<"gone", "go">>,
    <<"said", "say">>, <<"says", "say">>, <<"saying", "say">>, <<"made", "make">>,
    <<"makes", "make">>, <<"making", "make">>, <<"knew", "know">>, <<"knows", "know">>,
    <<"knowing", "know">>, <<"known", "know">>, <<"thought", "think">>, <<"thinks", "think">>,
    <<"thinking", "think">>, <<"took", "take">>, <<"takes", "take">>, <<"taking", "take">>,
    <<"taken", "take">>, <<"came", "come">>, <<"comes", "come">>, <<"coming", "come">>,
    <<"saw", "see">>, <<"sees", "see">>, <<"seeing", "see">>, <<"seen", "see">>,
    <<"got", "get">>, <<"gets", "get">>, <<"getting", "get">>, <<"gotten", "get">>,
    <<"gave", "give">>, <<"gives", "give">>, <<"giving", "give">>, <<"given", "give">>,
    <<"found", "find">>, <<"finds", "find">>, <<"finding", "find">>, <<"told", "tell">>,
    <<"tells", "tell">>, <<"telling", "tell">>, <<"felt", "feel">>, <<"feels", "feel">>,
    <<"feeling", "feel">>, <<"left", "leave">>, <<"leaves", "leave">>, <<"leaving", "leave">>,
    <<"brought", "bring">>, <<"brings", "bring">>, <<"bringing", "bring">>,
    <<"began", "begin">>, <<"begins", "begin">>, <<"beginning", "begin">>,
    <<"begun", "begin">>, <<"kept", "keep">>, <<"keeps", "keep">>, <<"keeping", "keep">>,
    <<"held", "hold">>, <<"holds", "hold">>, <<"holding", "hold">>, <<"wrote", "write">>,
    <<"writes", "write">>, <<"writing", "write">>, <<"written", "write">>,
    <<"stood", "stand">>, <<"stands", "stand">>, <<"standing", "stand">>, <<"heard", "hear">>,
    <<"hears", "hear">>, <<"hearing", "hear">>, <<"let", "let">>, <<"lets", "let">>,
    <<"letting", "let">>, <<"meant", "mean">>, <<"means", "mean">>, <<"meaning", "mean">>,
    <<"set", "set">>, <<"sets", "set">>, <<"setting", "set">>, <<"met", "meet">>,
    <<"meets", "meet">>, <<"meeting", "meet">>, <<"ran", "run">>, <<"runs", "run">>,
    <<"running", "run">>, <<"paid", "pay">>, <<"pays", "pay">>, <<"paying", "pay">>,
    <<"sat", "sit">>, <<"sits", "sit">>, <<"sitting", "sit">>, <<"spoke", "speak">>,
    <<"speaks", "speak">>, <<"speaking", "speak">>, <<"spoken", "speak">>, <<"lay", "lie">>,
    <<"lies", "lie">>, <<"lying", "lie">>, <<"lain", "lie">>, <<"led", "lead">>,
    <<"leads", "lead">>, <<"leading", "lead">>, <<"read", "read">>, <<"reads", "read">>,
    <<"reading", "read">>, <<"grew", "grow">>, <<"grows", "grow">>, <<"growing", "grow">>,
    <<"grown", "grow">>, <<"lost", "lose">>, <<"loses", "lose">>, <<"losing", "lose">>,
    <<"fell", "fall">>, <<"falls", "fall">>, <<"falling", "fall">>, <<"fallen", "fall">>,
    <<"sent", "send">>, <<"sends", "send">>, <<"sending", "send">>, <<"built", "build">>,
    <<"builds", "build">>, <<"building", "build">>, <<"spent", "spend">>,
    <<"spends", "spend">>, <<"spending", "spend">>, <<"cut", "cut">>, <<"cuts", "cut">>,
    <<"cutting", "cut">>, <<"hit", "hit">>, <<"hits", "hit">>, <<"hitting", "hit">>,
    <<"put", "put">>, <<"puts", "put">>, <<"putting", "put">>, <<"shut", "shut">>,
    <<"shuts", "shut">>, <<"shutting", "shut">>, <<"hurt", "hurt">>, <<"hurts", "hurt">>,
    <<"hurting", "hurt">>, <<"cost", "cost">>, <<"costs", "cost">>, <<"costing", "cost">>,
    <<"burst", "burst">>, <<"bursts", "burst">>, <<"bursting", "burst">>, <<"sold", "sell">>,
    <<"sells", "sell">>, <<"selling", "sell">>, <<"bought", "buy">>, <<"buys", "buy">>,
    <<"buying", "buy">>, <<"caught", "catch">>, <<"catches", "catch">>,
    <<"catching", "catch">>, <<"taught", "teach">>, <<"teaches", "teach">>,
    <<"teaching", "teach">>, <<"fought", "fight">>, <<"fights", "fight">>,
    <<"fighting", "fight">>, <<"sought", "seek">>, <<"seeks", "seek">>, <<"seeking", "seek">>,
    <<"wore", "wear">>, <<"wears", "wear">>, <<"wearing", "wear">>, <<"worn", "wear">>,
    <<"bore", "bear">>, <<"bears", "bear">>, <<"bearing", "bear">>, <<"borne", "bear">>,
    <<"born", "bear">>, <<"tore", "tear">>, <<"tears", "tear">>, <<"tearing", "tear">>,
    <<"torn", "tear">>, <<"swore", "swear">>, <<"swears", "swear">>, <<"swearing", "swear">>,
    <<"sworn", "swear">>, <<"broke", "break">>, <<"breaks", "break">>, <<"breaking", "break">>,
    <<"broken", "break">>, <<"chose", "choose">>, <<"chooses", "choose">>,
    <<"choosing", "choose">>, <<"chosen", "choose">>, <<"froze", "freeze">>,
    <<"freezes", "freeze">>, <<"freezing", "freeze">>, <<"frozen", "freeze">>,
    <<"woke", "wake">>, <<"wakes", "wake">>, <<"waking", "wake">>, <<"woken", "wake">>,
    <<"drove", "drive">>, <<"drives", "drive">>, <<"driving", "drive">>, <<"driven", "drive">>,
    <<"rode", "ride">>, <<"rides", "ride">>, <<"riding", "ride">>, <<"ridden", "ride">>,
    <<"rose", "rise">>, <<"rises", "rise">>, <<"rising", "rise">>, <<"risen", "rise">>,
    <<"wrote", "write">>, <<"writes", "write">>, <<"writing", "write">>,
    <<"written", "write">>, <<"hid", "hide">>, <<"hides", "hide">>, <<"hiding", "hide">>,
    <<"hidden", "hide">>, <<"bit", "bite">>, <<"bites", "bite">>, <<"biting", "bite">>,
    <<"bitten", "bite">>, <<"flew", "fly">>, <<"flies", "fly">>, <<"flying", "fly">>,
    <<"flown", "fly">>, <<"drew", "draw">>, <<"draws", "draw">>, <<"drawing", "draw">>,
    <<"drawn", "draw">>, <<"threw", "throw">>, <<"throws", "throw">>, <<"throwing", "throw">>,
    <<"thrown", "throw">>, <<"blew", "blow">>, <<"blows", "blow">>, <<"blowing", "blow">>,
    <<"blown", "blow">>, <<"knew", "know">>, <<"knows", "know">>, <<"knowing", "know">>,
    <<"known", "know">>, <<"slew", "slay">>, <<"slays", "slay">>, <<"slaying", "slay">>,
    <<"slain", "slay">>, <<"swam", "swim">>, <<"swims", "swim">>, <<"swimming", "swim">>,
    <<"swum", "swim">>, <<"sang", "sing">>, <<"sings", "sing">>, <<"singing", "sing">>,
    <<"sung", "sing">>, <<"rang", "ring">>, <<"rings", "ring">>, <<"ringing", "ring">>,
    <<"rung", "ring">>, <<"sank", "sink">>, <<"sinks", "sink">>, <<"sinking", "sink">>,
    <<"sunk", "sink">>, <<"shrank", "shrink">>, <<"shrinks", "shrink">>,
    <<"shrinking", "shrink">>, <<"shrunk", "shrink">>, <<"stank", "stink">>,
    <<"stinks", "stink">>, <<"stinking", "stink">>, <<"stunk", "stink">>, <<"drank", "drink">>,
    <<"drinks", "drink">>, <<"drinking", "drink">>, <<"drunk", "drink">>,
    <<"sprang", "spring">>, <<"springs", "spring">>, <<"springing", "spring">>,
    <<"sprung", "spring">>, <<"won't", "will not">>, <<"can't", "can not">>,
    <<"couldn't", "could not">>, <<"shouldn't", "should not">>, <<"wouldn't", "would not">>,
    <<"don't", "do not">>, <<"doesn't", "does not">>, <<"didn't", "did not">>,
    <<"isn't", "is not">>, <<"aren't", "are not">>, <<"wasn't", "was not">>,
    <<"weren't", "were not">>, <<"haven't", "have not">>, <<"hasn't", "has not">>,
    <<"hadn't", "had not">>, <<"i'm", "i am">>, <<"you're", "you are">>, <<"we're", "we are">>,
    <<"they're", "they are">>, <<"he's", "he is">>, <<"she's", "she is">>, <<"it's", "it is">>,
    <<"that's", "that is">>, <<"what's", "what is">>, <<"who's", "who is">>,
    <<"where's", "where is">>, <<"i've", "i have">>, <<"you've", "you have">>,
    <<"we've", "we have">>, <<"they've", "they have">>, <<"i'll", "i will">>,
    <<"you'll", "you will">>, <<"we'll", "we will">>, <<"they'll", "they will">>,
    <<"he'll", "he will">>, <<"she'll", "she will">>, <<"it'll", "it will">>,
    <<"i'd", "i would">>, <<"you'd", "you would">>, <<"we'd", "we would">>,
    <<"they'd", "they would">>, <<"he'd", "he would">>, <<"she'd", "she would">>,
    <<"it'd", "it would">>, <<"let's", "let us">>, <<"that'd", "that would">>,
    <<"who'd", "who would">>
  >>)

IRREGULAR_PLURALS ==
  ObjectOf(<<
    <<"children", "child">>, <<"feet", "foot">>, <<"teeth", "tooth">>, <<"mice", "mouse">>,
    <<"geese", "goose">>, <<"men", "man">>, <<"women", "woman">>, <<"people", "person">>,
    <<"oxen", "ox">>, <<"dice", "die">>, <<"lice", "louse">>, <<"criteria", "criterion">>,
    <<"phenomena", "phenomenon">>, <<"data", "datum">>, <<"bacteria", "bacterium">>,
    <<"cacti", "cactus">>, <<"fungi", "fungus">>, <<"nuclei", "nucleus">>,
    <<"radii", "radius">>, <<"alumni", "alumnus">>, <<"syllabi", "syllabus">>,
    <<"analyses", "analysis">>, <<"bases", "basis">>, <<"crises", "crisis">>,
    <<"diagnoses", "diagnosis">>, <<"hypotheses", "hypothesis">>, <<"oases", "oasis">>,
    <<"parentheses", "parenthesis">>, <<"syntheses", "synthesis">>, <<"theses", "thesis">>,
    <<"appendices", "appendix">>, <<"indices", "index">>, <<"matrices", "matrix">>,
    <<"vertices", "vertex">>
  >>)

\* patterns in the order they are tried; ci is the i flag
POS_PATTERNS ==
  <<
    [pattern |-> Cat(<<BOL, Set({"!", ".", ":", ";", "?"}, FALSE), EOL>>),
     ci |-> FALSE, pos |-> "PUNCT", tag |-> "."],
    [pattern |-> Cat(<<BOL, Set({","}, FALSE), EOL>>),
     ci |-> FALSE, pos |-> "PUNCT", tag |-> ","],
    [pattern |-> Cat(<<BOL, Set({"-"}, FALSE), EOL>>),
     ci |-> FALSE, pos |-> "PUNCT", tag |-> ":"],
    [pattern |-> Cat(<<BOL, Set({"\"", "'"}, FALSE), EOL>>),
     ci |-> FALSE, pos |-> "PUNCT", tag |-> "''"],
    [pattern |-> Cat(<<BOL, Set({"(", ")", "[", "]", "{", "}"}, FALSE), EOL>>),
     ci |-> FALSE, pos |-> "PUNCT", tag |-> "-LRB-"],
    [pattern |-> Cat(<<BOL, Many(Set(Digits, FALSE), 1), EOL>>),
     ci |-> FALSE, pos |-> "NUM", tag |-> "CD"],
    [pattern |-> Cat(<<BOL, Many(Set(Digits, FALSE), 1), Set({",", "."}, FALSE), Many(Set(Digits, FALSE), 1), EOL>>),
     ci |-> FALSE, pos |-> "NUM", tag |-> "CD"],
    [pattern |-> Cat(<<BOL, Many(Set(Digits, FALSE), 1), Words(<<"st", "nd", "rd", "th">>), EOL>>),
     ci |-> TRUE, pos |-> "ADJ", tag |-> "JJ"],
    [pattern |-> Cat(<<BOL, Lit("$"), Many(Set(Digits, FALSE), 1)>>),
     ci |-> FALSE, pos |-> "NUM", tag |-> "CD"],
    [pattern |-> Cat(<<BOL, Many(Set(Digits, FALSE), 1), Lit("%"), EOL>>),
     ci |-> FALSE, pos |-> "NUM", tag |-> "CD"],
    [pattern |-> Cat(<<BOL, Words(<<"a", "an", "the">>), EOL>>),
     ci |-> TRUE, pos |-> "DET", tag |-> "DT"],
    [pattern |-> Cat(<<BOL, Words(<<"this", "that", "these", "those">>), EOL>>),
     ci |-> TRUE, pos |-> "DET", tag |-> "DT"],
    [pattern |-> Cat(<<BOL, Words(<<"my", "your", "his", "her", "its", "our", "their">>), EOL>>),
     ci |-> TRUE, pos |-> "DET", tag |-> "PRP$"],
    [pattern |-> Cat(<<BOL, Words(<<"some", "any", "no", "every", "each", "all", "both", "few", "many", "much", "more", "most", "other", "another">>), EOL>>),
     ci |-> TRUE, pos |-> "DET", tag |-> "DT"],
    [pattern |-> Cat(<<BOL, Words(<<"i", "me", "myself">>), EOL>>),
     ci |-> TRUE, pos |-> "PRON", tag |-> "PRP"],
    [pattern |-> Cat(<<BOL, Words(<<"you", "yourself", "yourselves">>), EOL>>),
     ci |-> TRUE, pos |-> "PRON", tag |-> "PRP"],
    [pattern |-> Cat(<<BOL, Words(<<"he", "him", "himself", "she", "her", "herself", "it", "itself">>), EOL>>),
     ci |-> TRUE, pos |-> "PRON", tag |-> "PRP"],
    [pattern |-> Cat(<<BOL, Words(<<"we", "us", "ourselves", "they", "them", "themselves">>), EOL>>),
     ci |-> TRUE, pos |-> "PRON", tag |-> "PRP"],
    [pattern |-> Cat(<<BOL, Words(<<"who", "whom", "whose", "which", "what", "whoever", "whatever", "whichever">>), EOL>>),
     ci |-> TRUE, pos |-> "PRON", tag |-> "WP"],
    [pattern |-> Cat(<<BOL, Words(<<"in", "on", "at", "to", "for", "of", "with", "by", "from", "up", "about", "into", "through", "during", "before", "after", "above", "below", "between", "under", "again", "further", "then", "once">>), EOL>>),
     ci |-> TRUE, pos |-> "ADP", tag |-> "IN"],
    [pattern |-> Cat(<<BOL, Words(<<"and", "or", "but", "nor", "so", "yet", "for">>), EOL>>),
     ci |-> TRUE, pos |-> "CONJ", tag |-> "CC"],
    [pattern |-> Cat(<<BOL, Words(<<"if", "unless", "although", "because", "since", "while", "when", "where", "whereas", "whether", "as", "than", "that">>), EOL>>),
     ci |-> TRUE, pos |-> "CONJ", tag |-> "IN"],
    [pattern |-> Cat(<<BOL, Words(<<"is", "am", "are", "was", "were", "be", "been", "being">>), EOL>>),
     ci |-> TRUE, pos |-> "VERB", tag |-> "VB"],
    [pattern |-> Cat(<<BOL, Words(<<"have", "has", "had", "having">>), EOL>>),
     ci |-> TRUE, pos |-> "VERB", tag |-> "VB"],
    [pattern |-> Cat(<<BOL, Words(<<"do", "does", "did", "doing">>), EOL>>),
     ci |-> TRUE, pos |-> "VERB", tag |-> "VB"],
    [pattern |-> Cat(<<BOL, Words(<<"will", "would", "shall", "should", "can", "could", "may", "might", "must">>), EOL>>),
     ci |-> TRUE, pos |-> "VERB", tag |-> "MD"],
    [pattern |-> Cat(<<Lit("ing"), EOL>>),
     ci |-> TRUE, pos |-> "VERB", tag |-> "VBG"],
    [pattern |-> Cat(<<Lit("ed"), EOL>>),
     ci |-> TRUE, pos |-> "VERB", tag |-> "VBD"],
    [pattern |-> Cat(<<Lit("s"), EOL>>),
     ci |-> TRUE, pos |-> "VERB", tag |-> "VBZ"],
    [pattern |-> Cat(<<Words(<<"ful", "less", "able", "ible", "ous", "ive", "al", "ial", "ic", "ical", "ish", "like", "ly", "y", "ary", "ory">>), EOL>>),
     ci |-> TRUE, pos |-> "ADJ", tag |-> "JJ"],
    [pattern |-> Cat(<<Lit("er"), EOL>>),
     ci |-> TRUE, pos |-> "ADJ", tag |-> "JJR"],
    [pattern |-> Cat(<<Lit("est"), EOL>>),
     ci |-> TRUE, pos |-> "ADJ", tag |-> "JJS"],
    [pattern |-> Cat(<<Lit("ly"), EOL>>),
     ci |-> TRUE, pos |-> "ADV", tag |-> "RB"],
    [pattern |-> Cat(<<Words(<<"tion", "sion", "ness", "ment", "ity", "ism", "ist", "er", "or", "ant", "ent", "ance", "ence", "dom", "hood", "ship", "age">>), EOL>>),
     ci |-> TRUE, pos |-> "NOUN", tag |-> "NN"],
    [pattern |-> Cat(<<BOL, Words(<<"oh", "ah", "wow", "ouch", "hey", "hi", "hello", "bye", "oops", "ugh", "huh", "hmm", "um", "uh", "well", "yeah", "yes", "no", "okay", "ok">>), EOL>>),
     ci |-> TRUE, pos |-> "INTJ", tag |-> "UH"],
    [pattern |-> Cat(<<BOL, Words(<<"not", "n't">>), EOL>>),
     ci |-> TRUE, pos |-> "PART", tag |-> "RB"],
    [pattern |-> Cat(<<BOL, Lit("to"), EOL>>),
     ci |-> TRUE, pos |-> "PART", tag |-> "TO"],
    [pattern |-> Cat(<<BOL, Set({"#", "$", "%", "&", "*", "+", "<", "=", ">", "@", "\\", "^", "|", "~"}, FALSE), EOL>>),
     ci |-> FALSE, pos |-> "SYM", tag |-> "SYM"]
  >>

WORD_POS_MAP ==
  ObjectOf(<<
    <<"be", [pos |-> "VERB", tag |-> "VB"]>>, <<"have", [pos |-> "VERB", tag |-> "VB"]>>,
    <<"do", [pos |-> "VERB", tag |-> "VB"]>>, <<"say", [pos |-> "VERB", tag |-> "VB"]>>,
    <<"get", [pos |-> "VERB", tag |-> "VB"]>>, <<"make", [pos |-> "VERB", tag |-> "VB"]>>,
    <<"go", [pos |-> "VERB", tag |-> "VB"]>>, <<"know", [pos |-> "VERB", tag |-> "VB"]>>,
    <<"take", [pos |-> "VERB", tag |-> "VB"]>>, <<"see", [pos |-> "VERB", tag |-> "VB"]>>,
    <<"come", [pos |-> "VERB", tag |-> "VB"]>>, <<"think", [pos |-> "VERB", tag |-> "VB"]>>,
    <<"look", [pos |-> "VERB", tag |-> "VB"]>>, <<"want", [pos |-> "VERB", tag |-> "VB"]>>,
    <<"give", [pos |-> "VERB", tag |-> "VB"]>>, <<"use", [pos |-> "VERB", tag |-> "VB"]>>,
    <<"find", [pos |-> "VERB", tag |-> "VB"]>>, <<"tell", [pos |-> "VERB", tag |-> "VB"]>>,
    <<"ask", [pos |-> "VERB", tag |-> "VB"]>>, <<"work", [pos |-> "VERB", tag |-> "VB"]>>,
    <<"seem", [pos |-> "VERB", tag |-> "VB"]>>, <<"feel", [pos |-> "VERB", tag |-> "VB"]>>,
    <<"try", [pos |-> "VERB", tag |-> "VB"]>>, <<"leave", [pos |-> "VERB", tag |-> "VB"]>>,
    <<"call", [pos |-> "VERB", tag |-> "VB"]>>, <<"need", [pos |-> "VERB", tag |-> "VB"]>>,
    <<"become", [pos |-> "VERB", tag |-> "VB"]>>, <<"put", [pos |-> "VERB", tag |-> "VB"]>>,
    <<"mean", [pos |-> "VERB", tag |-> "VB"]>>, <<"keep", [pos |-> "VERB", tag |-> "VB"]>>,
    <<"let", [pos |-> "VERB", tag |-> "VB"]>>, <<"begin", [pos |-> "VERB", tag |-> "VB"]>>,
    <<"show", [pos |-> "VERB", tag |-> "VB"]>>, <<"hear", [pos |-> "VERB", tag |-> "VB"]>>,
    <<"play", [pos |-> "VERB", tag |-> "VB"]>>, <<"run", [pos |-> "VERB", tag |-> "VB"]>>,
    <<"move", [pos |-> "VERB", tag |-> "VB"]>>, <<"live", [pos |-> "VERB", tag |-> "VB"]>>,
    <<"believe", [pos |-> "VERB", tag |-> "VB"]>>, <<"hold", [pos |-> "VERB", tag |-> "VB"]>>,
    <<"bring", [pos |-> "VERB", tag |-> "VB"]>>, <<"happen", [pos |-> "VERB", tag |-> "VB"]>>,
    <<"write", [pos |-> "VERB", tag |-> "VB"]>>, <<"provide", [pos |-> "VERB", tag |-> "VB"]>>,
    <<"sit", [pos |-> "VERB", tag |-> "VB"]>>, <<"stand", [pos |-> "VERB", tag |-> "VB"]>>,
    <<"lose", [pos |-> "VERB", tag |-> "VB"]>>, <<"pay", [pos |-> "VERB", tag |-> "VB"]>>,
    <<"meet", [pos |-> "VERB", tag |-> "VB"]>>, <<"include", [pos |-> "VERB", tag |-> "VB"]>>,
    <<"continue", [pos |-> "VERB", tag |-> "VB"]>>, <<"set", [pos |-> "VERB", tag |-> "VB"]>>,
    <<"learn", [pos |-> "VERB", tag |-> "VB"]>>, <<"change", [pos |-> "VERB", tag |-> "VB"]>>,
    <<"lead", [pos |-> "VERB", tag |-> "VB"]>>,
    <<"understand", [pos |-> "VERB", tag |-> "VB"]>>,
    <<"watch", [pos |-> "VERB", tag |-> "VB"]>>, <<"follow", [pos |-> "VERB", tag |-> "VB"]>>,
    <<"stop", [pos |-> "VERB", tag |-> "VB"]>>, <<"create", [pos |-> "VERB", tag |-> "VB"]>>,
    <<"speak", [pos |-> "VERB", tag |-> "VB"]>>, <<"read", [pos |-> "VERB", tag |-> "VB"]>>,
    <<"allow", [pos |-> "VERB", tag |-> "VB"]>>, <<"add", [pos |-> "VERB", tag |-> "VB"]>>,
    <<"spend", [pos |-> "VERB", tag |-> "VB"]>>, <<"grow", [pos |-> "VERB", tag |-> "VB"]>>,
    <<"open", [pos |-> "VERB", tag |-> "VB"]>>, <<"walk", [pos |-> "VERB", tag |-> "VB"]>>,
    <<"win", [pos |-> "VERB", tag |-> "VB"]>>, <<"offer", [pos |-> "VERB", tag |-> "VB"]>>,
    <<"remember", [pos |-> "VERB", tag |-> "VB"]>>, <<"love", [pos |-> "VERB", tag |-> "VB"]>>,
    <<"consider", [pos |-> "VERB", tag |-> "VB"]>>,
    <<"appear", [pos |-> "VERB", tag |-> "VB"]>>, <<"buy", [pos |-> "VERB", tag |-> "VB"]>>,
    <<"wait", [pos |-> "VERB", tag |-> "VB"]>>, <<"serve", [pos |-> "VERB", tag |-> "VB"]>>,
    <<"die", [pos |-> "VERB", tag |-> "VB"]>>, <<"send", [pos |-> "VERB", tag |-> "VB"]>>,
    <<"expect", [pos |-> "VERB", tag |-> "VB"]>>, <<"build", [pos |-> "VERB", tag |-> "VB"]>>,
    <<"stay", [pos |-> "VERB", tag |-> "VB"]>>, <<"fall", [pos |-> "VERB", tag |-> "VB"]>>,
    <<"cut", [pos |-> "VERB", tag |-> "VB"]>>, <<"reach", [pos |-> "VERB", tag |-> "VB"]>>,
    <<"kill", [pos |-> "VERB", tag |-> "VB"]>>, <<"remain", [pos |-> "VERB", tag |-> "VB"]>>,
    <<"suggest", [pos |-> "VERB", tag |-> "VB"]>>, <<"raise", [pos |-> "VERB", tag |-> "VB"]>>,
    <<"pass", [pos |-> "VERB", tag |-> "VB"]>>, <<"sell", [pos |-> "VERB", tag |-> "VB"]>>,
    <<"require", [pos |-> "VERB", tag |-> "VB"]>>,
    <<"report", [pos |-> "VERB", tag |-> "VB"]>>, <<"decide", [pos |-> "VERB", tag |-> "VB"]>>,
    <<"pull", [pos |-> "VERB", tag |-> "VB"]>>, <<"develop", [pos |-> "VERB", tag |-> "VB"]>>,
    <<"time", [pos |-> "NOUN", tag |-> "NN"]>>, <<"year", [pos |-> "NOUN", tag |-> "NN"]>>,
    <<"people", [pos |-> "NOUN", tag |-> "NNS"]>>, <<"way", [pos |-> "NOUN", tag |-> "NN"]>>,
    <<"day", [pos |-> "NOUN", tag |-> "NN"]>>, <<"man", [pos |-> "NOUN", tag |-> "NN"]>>,
    <<"thing", [pos |-> "NOUN", tag |-> "NN"]>>, <<"woman", [pos |-> "NOUN", tag |-> "NN"]>>,
    <<"life", [pos |-> "NOUN", tag |-> "NN"]>>, <<"child", [pos |-> "NOUN", tag |-> "NN"]>>,
    <<"world", [pos |-> "NOUN", tag |-> "NN"]>>, <<"school", [pos |-> "NOUN", tag |-> "NN"]>>,
    <<"state", [pos |-> "NOUN", tag |-> "NN"]>>, <<"family", [pos |-> "NOUN", tag |-> "NN"]>>,
    <<"student", [pos |-> "NOUN", tag |-> "NN"]>>, <<"group", [pos |-> "NOUN", tag |-> "NN"]>>,
    <<"country", [pos |-> "NOUN", tag |-> "NN"]>>,
    <<"problem", [pos |-> "NOUN", tag |-> "NN"]>>, <<"hand", [pos |-> "NOUN", tag |-> "NN"]>>,
    <<"part", [pos |-> "NOUN", tag |-> "NN"]>>, <<"place", [pos |-> "NOUN", tag |-> "NN"]>>,
    <<"case", [pos |-> "NOUN", tag |-> "NN"]>>, <<"week", [pos |-> "NOUN", tag |-> "NN"]>>,
    <<"company", [pos |-> "NOUN", tag |-> "NN"]>>,
    <<"system", [pos |-> "NOUN", tag |-> "NN"]>>,
    <<"program", [pos |-> "NOUN", tag |-> "NN"]>>,
    <<"question", [pos |-> "NOUN", tag |-> "NN"]>>, <<"work", [pos |-> "NOUN", tag |-> "NN"]>>,
    <<"government", [pos |-> "NOUN", tag |-> "NN"]>>,
    <<"number", [pos |-> "NOUN", tag |-> "NN"]>>, <<"night", [pos |-> "NOUN", tag |-> "NN"]>>,
    <<"point", [pos |-> "NOUN", tag |-> "NN"]>>, <<"home", [pos |-> "NOUN", tag |-> "NN"]>>,
    <<"water", [pos |-> "NOUN", tag |-> "NN"]>>, <<"room", [pos |-> "NOUN", tag |-> "NN"]>>,
    <<"mother", [pos |-> "NOUN", tag |-> "NN"]>>, <<"area", [pos |-> "NOUN", tag |-> "NN"]>>,
    <<"money", [pos |-> "NOUN", tag |-> "NN"]>>, <<"story", [pos |-> "NOUN", tag |-> "NN"]>>,
    <<"fact", [pos |-> "NOUN", tag |-> "NN"]>>, <<"month", [pos |-> "NOUN", tag |-> "NN"]>>,
    <<"lot", [pos |-> "NOUN", tag |-> "NN"]>>, <<"right", [pos |-> "NOUN", tag |-> "NN"]>>,
    <<"study", [pos |-> "NOUN", tag |-> "NN"]>>, <<"book", [pos |-> "NOUN", tag |-> "NN"]>>,
    <<"eye", [pos |-> "NOUN", tag |-> "NN"]>>, <<"job", [pos |-> "NOUN", tag |-> "NN"]>>,
    <<"word", [pos |-> "NOUN", tag |-> "NN"]>>, <<"business", [pos |-> "NOUN", tag |-> "NN"]>>,
    <<"issue", [pos |-> "NOUN", tag |-> "NN"]>>, <<"side", [pos |-> "NOUN", tag |-> "NN"]>>,
    <<"kind", [pos |-> "NOUN", tag |-> "NN"]>>, <<"head", [pos |-> "NOUN", tag |-> "NN"]>>,
    <<"house", [pos |-> "NOUN", tag |-> "NN"]>>, <<"service", [pos |-> "NOUN", tag |-> "NN"]>>,
    <<"friend", [pos |-> "NOUN", tag |-> "NN"]>>, <<"father", [pos |-> "NOUN", tag |-> "NN"]>>,
    <<"power", [pos |-> "NOUN", tag |-> "NN"]>>, <<"hour", [pos |-> "NOUN", tag |-> "NN"]>>,
    <<"game", [pos |-> "NOUN", tag |-> "NN"]>>, <<"line", [pos |-> "NOUN", tag |-> "NN"]>>,
    <<"end", [pos |-> "NOUN", tag |-> "NN"]>>, <<"member", [pos |-> "NOUN", tag |-> "NN"]>>,
    <<"law", [pos |-> "NOUN", tag |-> "NN"]>>, <<"car", [pos |-> "NOUN", tag |-> "NN"]>>,
    <<"city", [pos |-> "NOUN", tag |-> "NN"]>>,
    <<"community", [pos |-> "NOUN", tag |-> "NN"]>>,
    <<"name", [pos |-> "NOUN", tag |-> "NN"]>>,
    <<"president", [pos |-> "NOUN", tag |-> "NN"]>>,
    <<"team", [pos |-> "NOUN", tag |-> "NN"]>>, <<"minute", [pos |-> "NOUN", tag |-> "NN"]>>,
    <<"idea", [pos |-> "NOUN", tag |-> "NN"]>>, <<"kid", [pos |-> "NOUN", tag |-> "NN"]>>,
    <<"body", [pos |-> "NOUN", tag |-> "NN"]>>,
    <<"information", [pos |-> "NOUN", tag |-> "NN"]>>,
    <<"back", [pos |-> "NOUN", tag |-> "NN"]>>, <<"parent", [pos |-> "NOUN", tag |-> "NN"]>>,
    <<"face", [pos |-> "NOUN", tag |-> "NN"]>>, <<"others", [pos |-> "NOUN", tag |-> "NNS"]>>,
    <<"level", [pos |-> "NOUN", tag |-> "NN"]>>, <<"office", [pos |-> "NOUN", tag |-> "NN"]>>,
    <<"door", [pos |-> "NOUN", tag |-> "NN"]>>, <<"health", [pos |-> "NOUN", tag |-> "NN"]>>,
    <<"person", [pos |-> "NOUN", tag |-> "NN"]>>, <<"art", [pos |-> "NOUN", tag |-> "NN"]>>,
    <<"war", [pos |-> "NOUN", tag |-> "NN"]>>, <<"history", [pos |-> "NOUN", tag |-> "NN"]>>,
    <<"party", [pos |-> "NOUN", tag |-> "NN"]>>, <<"result", [pos |-> "NOUN", tag |-> "NN"]>>,
    <<"change", [pos |-> "NOUN", tag |-> "NN"]>>,
    <<"morning", [pos |-> "NOUN", tag |-> "NN"]>>,
    <<"reason", [pos |-> "NOUN", tag |-> "NN"]>>,
    <<"research", [pos |-> "NOUN", tag |-> "NN"]>>, <<"girl", [pos |-> "NOUN", tag |-> "NN"]>>,
    <<"guy", [pos |-> "NOUN", tag |-> "NN"]>>, <<"moment", [pos |-> "NOUN", tag |-> "NN"]>>,
    <<"air", [pos |-> "NOUN", tag |-> "NN"]>>, <<"teacher", [pos |-> "NOUN", tag |-> "NN"]>>,
    <<"force", [pos |-> "NOUN", tag |-> "NN"]>>,
    <<"education", [pos |-> "NOUN", tag |-> "NN"]>>,
    <<"video", [pos |-> "NOUN", tag |-> "NN"]>>, <<"content", [pos |-> "NOUN", tag |-> "NN"]>>,
    <<"algorithm", [pos |-> "NOUN", tag |-> "NN"]>>,
    <<"channel", [pos |-> "NOUN", tag |-> "NN"]>>,
    <<"viewer", [pos |-> "NOUN", tag |-> "NN"]>>,
    <<"creator", [pos |-> "NOUN", tag |-> "NN"]>>,
    <<"audience", [pos |-> "NOUN", tag |-> "NN"]>>,
    <<"engagement", [pos |-> "NOUN", tag |-> "NN"]>>,
    <<"thumbnail", [pos |-> "NOUN", tag |-> "NN"]>>,
    <<"hook", [pos |-> "NOUN", tag |-> "NN"]>>, <<"script", [pos |-> "NOUN", tag |-> "NN"]>>,
    <<"trend", [pos |-> "NOUN", tag |-> "NN"]>>,
    <<"platform", [pos |-> "NOUN", tag |-> "NN"]>>,
    <<"brand", [pos |-> "NOUN", tag |-> "NN"]>>, <<"good", [pos |-> "ADJ", tag |-> "JJ"]>>,
    <<"new", [pos |-> "ADJ", tag |-> "JJ"]>>, <<"first", [pos |-> "ADJ", tag |-> "JJ"]>>,
    <<"last", [pos |-> "ADJ", tag |-> "JJ"]>>, <<"long", [pos |-> "ADJ", tag |-> "JJ"]>>,
    <<"great", [pos |-> "ADJ", tag |-> "JJ"]>>, <<"little", [pos |-> "ADJ", tag |-> "JJ"]>>,
    <<"own", [pos |-> "ADJ", tag |-> "JJ"]>>, <<"other", [pos |-> "ADJ", tag |-> "JJ"]>>,
    <<"old", [pos |-> "ADJ", tag |-> "JJ"]>>, <<"right", [pos |-> "ADJ", tag |-> "JJ"]>>,
    <<"big", [pos |-> "ADJ", tag |-> "JJ"]>>, <<"high", [pos |-> "ADJ", tag |-> "JJ"]>>,
    <<"different", [pos |-> "ADJ", tag |-> "JJ"]>>, <<"small", [pos |-> "ADJ", tag |-> "JJ"]>>,
    <<"large", [pos |-> "ADJ", tag |-> "JJ"]>>, <<"next", [pos |-> "ADJ", tag |-> "JJ"]>>,
    <<"early", [pos |-> "ADJ", tag |-> "JJ"]>>, <<"young", [pos |-> "ADJ", tag |-> "JJ"]>>,
    <<"important", [pos |-> "ADJ", tag |-> "JJ"]>>, <<"few", [pos |-> "ADJ", tag |-> "JJ"]>>,
    <<"public", [pos |-> "ADJ", tag |-> "JJ"]>>, <<"bad", [pos |-> "ADJ", tag |-> "JJ"]>>,
    <<"same", [pos |-> "ADJ", tag |-> "JJ"]>>, <<"able", [pos |-> "ADJ", tag |-> "JJ"]>>,
    <<"viral", [pos |-> "ADJ", tag |-> "JJ"]>>, <<"amazing", [pos |-> "ADJ", tag |-> "JJ"]>>,
    <<"incredible", [pos |-> "ADJ", tag |-> "JJ"]>>,
    <<"crazy", [pos |-> "ADJ", tag |-> "JJ"]>>, <<"insane", [pos |-> "ADJ", tag |-> "JJ"]>>,
    <<"shocking", [pos |-> "ADJ", tag |-> "JJ"]>>, <<"secret", [pos |-> "ADJ", tag |-> "JJ"]>>,
    <<"best", [pos |-> "ADJ", tag |-> "JJS"]>>, <<"worst", [pos |-> "ADJ", tag |-> "JJS"]>>,
    <<"better", [pos |-> "ADJ", tag |-> "JJR"]>>, <<"worse", [pos |-> "ADJ", tag |-> "JJR"]>>,
    <<"now", [pos |-> "ADV", tag |-> "RB"]>>, <<"just", [pos |-> "ADV", tag |-> "RB"]>>,
    <<"also", [pos |-> "ADV", tag |-> "RB"]>>, <<"very", [pos |-> "ADV", tag |-> "RB"]>>,
    <<"then", [pos |-> "ADV", tag |-> "RB"]>>, <<"more", [pos |-> "ADV", tag |-> "RBR"]>>,
    <<"here", [pos |-> "ADV", tag |-> "RB"]>>, <<"well", [pos |-> "ADV", tag |-> "RB"]>>,
    <<"only", [pos |-> "ADV", tag |-> "RB"]>>, <<"even", [pos |-> "ADV", tag |-> "RB"]>>,
    <<"back", [pos |-> "ADV", tag |-> "RB"]>>, <<"there", [pos |-> "ADV", tag |-> "RB"]>>,
    <<"still", [pos |-> "ADV", tag |-> "RB"]>>, <<"down", [pos |-> "ADV", tag |-> "RB"]>>,
    <<"up", [pos |-> "ADV", tag |-> "RB"]>>, <<"out", [pos |-> "ADV", tag |-> "RB"]>>,
    <<"really", [pos |-> "ADV", tag |-> "RB"]>>, <<"never", [pos |-> "ADV", tag |-> "RB"]>>,
    <<"always", [pos |-> "ADV", tag |-> "RB"]>>, <<"most", [pos |-> "ADV", tag |-> "RBS"]>>,
    <<"actually", [pos |-> "ADV", tag |-> "RB"]>>,
    <<"literally", [pos |-> "ADV", tag |-> "RB"]>>
  >>)

(* ---------------------------------------------------------------------- *)
(* Tokenizer                                                               *)
(* ---------------------------------------------------------------------- *)

\* the capacity of the tokenizer's cache
TokenizerMaxCacheSize ==
  1000

\* the length of the text prefix that keys the tokenizer's cache
TokenizerKeyLength ==
  100

\* word | number | one character that is neither \w nor \s | whitespace
tokenRegex ==
  Alt(<<Cat(<<Many(Set(Letters, FALSE), 1),
              Rep(Cat(<<Lit("'"), Many(Set(Letters, FALSE), 1)>>), 0, 1)>>),
        Cat(<<Many(Set(Digits, FALSE), 1),
              Many(Cat(<<Set({",", "."}, FALSE), Many(Set(Digits, FALSE), 1)>>),
                  0),
              Rep(Lit("%"), 0, 1)>>),
        Set(SpaceChars \cup WordChars, TRUE),
        Many(Set(SpaceChars, FALSE), 1)>>)

\* the matched texts of the matches that are not whitespace
RawTexts(text, kept) ==
  [k \in DOMAIN kept |-> Substring(text, kept[k][1], kept[k][2])]

\* the texts of the word, number and punctuation matches, in order; whitespace
\* matches are dropped
splitIntoRawTokens(text) ==
  RawTexts(text, SelectSeq(MatchAll(tokenRegex, text, 0, FALSE),
                           LAMBDA m : ~IsSpace(CharAt(text, m[1]))))

\* the first pattern of POS_PATTERNS that the text passes, 0 if none
FirstPattern(text) ==
  Least({k \in DOMAIN POS_PATTERNS :
           Test(POS_PATTERNS[k].pattern, text, POS_PATTERNS[k].ci)})

\* destructuring pos and tag out of an inherited function yields undefined
Undefined ==
  "undefined"

\* the return of the pattern loop of determinePOS: the k-th pattern matched, or
\* none did (k = 0) and the word is taken for a noun
PatternPOS(k) ==
  IF k # 0 THEN [pos |-> POS_PATTERNS[k].pos, tag |-> POS_PATTERNS[k].tag]
  ELSE [pos |-> "NOUN", tag |-> "NN"]

determinePOS(text, lowerText) ==
  IF lowerText \in DOMAIN WORD_POS_MAP THEN WORD_POS_MAP[lowerText]
  ELSE IF Truthy(WORD_POS_MAP, lowerText) THEN [pos |-> Undefined, tag |-> Undefined]
  ELSE PatternPOS(FirstPattern(text))

\* does the suffix rule produce a stem for the word
RuleApplies(rule, word, pos) ==
  /\ EndsWith(word, rule.suffix)
  /\ Len(word) >= rule.minLength
  /\ pos \in rule.pos
  /\ Len(word) - Len(rule.suffix) + Len(rule.replacement) >= 2

\* the stem the k-th rule of LEMMA_RULES makes of the word; the word itself
\* when no rule applies (k = 0)
ApplyRule(word, k) ==
  IF k = 0 THEN word
  ELSE SubSeq(word, 1, Len(word) - Len(LEMMA_RULES[k].suffix))
         \o LEMMA_RULES[k].replacement

getLemma(word, pos) ==
  IF word \in DOMAIN IRREGULAR_VERBS THEN IRREGULAR_VERBS[word]
  ELSE IF Truthy(IRREGULAR_VERBS, word) THEN ObjectFn
  ELSE IF word \in DOMAIN IRREGULAR_PLURALS THEN IRREGULAR_PLURALS[word]
  ELSE ApplyRule(word,
         Least({k \in DOMAIN LEMMA_RULES : RuleApplies(LEMMA_RULES[k], word, pos)}))

\* the token record analyzeToken builds from the lower-cased text and the
\* part of speech
TokenRecord(text, lowerText, pt, index, startChar, endChar) ==
  [text |-> text,
   lemma |-> getLemma(lowerText, pt.pos),
   pos |-> pt.pos,
   tag |-> pt.tag,
   isStopWord |-> lowerText \in STOP_WORDS,
   isPunctuation |-> pt.pos = "PUNCT",
   isAlpha |-> text # "" /\ \A i \in 1..Len(text) : SubSeq(text, i, i) \in Letters,
   isDigit |-> text # "" /\ \A i \in 1..Len(text) : SubSeq(text, i, i) \in Digits,
   index |-> index,
   startChar |-> startChar,
   endChar |-> endChar]

analyzeToken(text, index, startChar, endChar) ==
  TokenRecord(text, ToLowerCase(text), determinePOS(text, ToLowerCase(text)),
              index, startChar, endChar)

RECURSIVE TokenizeLoop(_, _, _, _, _)
\* the loop of tokenize over the raw tokens: each token is placed at the first
\* occurrence of its text at or after the end of the previous token
TokenizeLoop(text, rawTokens, k, currentIndex, tokens) ==
  IF k > Len(rawTokens) THEN tokens
  ELSE LET startChar == IndexOfFrom(text, rawTokens[k], currentIndex)
           endChar == startChar + Len(rawTokens[k])
       IN TokenizeLoop(text, rawTokens, k + 1, endChar,
            Append(tokens, analyzeToken(rawTokens[k], Len(tokens), startChar, endChar)))

\* what tokenize computes on a cache miss
TokenizeFresh(text) ==
  TokenizeLoop(text, splitIntoRawTokens(text), 1, 0, <<>>)

(* ---------------------------------------------------------------------- *)
(* A Map used as a cache: entries in insertion order                       *)
(* ---------------------------------------------------------------------- *)

CacheHas(cache, key) ==
  \E i \in DOMAIN cache : cache[i].key = key

CacheGet(cache, key) ==
  cache[CHOOSE i \in DOMAIN cache : cache[i].key = key].value

\* the eviction step and the set of a cache miss: when the cache is full its
\* oldest key is deleted, unless that key is the empty string
CachePut(cache, key, value, maxCacheSize) ==
  LET evicted == IF Len(cache) >= maxCacheSize /\ cache[1].key # ""
                 THEN Tail(cache) ELSE cache
  IN Append(evicted, [key |-> key, value |-> value])

(* ---------------------------------------------------------------------- *)
(* Sentence splitter: abbreviation and word lists                          *)
(* ---------------------------------------------------------------------- *)

ABBREVIATIONS_titles ==
  {
    "mr", "mrs", "ms", "dr", "prof", "sr", "jr", "rev", "hon", "gov", "pres", "gen", "col",
    "lt", "sgt", "cpl", "pvt", "adm", "capt", "cmdr", "maj", "rep", "sen", "amb", "treas",
    "sec", "atty", "supt"
  }

ABBREVIATIONS_academic ==
  {
    "ph", "phd", "md", "ba", "bs", "ma", "mba", "jd", "llb", "llm", "ed", "edd", "dds", "dvm",
    "rn", "esq", "cpa", "pe", "ra"
  }

ABBREVIATIONS_months ==
  {
    "jan", "feb", "mar", "apr", "jun", "jul", "aug", "sep", "sept", "oct", "nov", "dec"
  }

ABBREVIATIONS_states ==
  {
    "ala", "ariz", "ark", "calif", "colo", "conn", "del", "fla", "ill", "ind", "kans", "mass",
    "mich", "minn", "miss", "mont", "nebr", "nev", "okla", "oreg", "penn", "tenn", "tex",
    "wash", "wisc", "wyo"
  }

ABBREVIATIONS_common ==
  {
    "etc", "vs", "viz", "al", "eg", "ie", "cf", "approx", "dept", "est", "min", "max", "misc",
    "no", "nos", "op", "pp", "re", "ref", "tel", "temp", "vet", "vol", "vols", "yr", "yrs",
    "fig", "figs", "inc", "corp", "ltd", "co", "bros", "assn", "assoc", "natl", "intl", "govt"
  }

ABBREVIATIONS_units ==
  {
    "oz", "lb", "lbs", "kg", "km", "cm", "mm", "ml", "mg", "ft", "yd", "mi", "hr", "hrs",
    "min", "mins", "sec", "secs", "cal", "sq", "cu"
  }

ALL_ABBREVIATIONS ==
  ABBREVIATIONS_titles \cup ABBREVIATIONS_academic \cup ABBREVIATIONS_months
  \cup ABBREVIATIONS_states \cup ABBREVIATIONS_common \cup ABBREVIATIONS_units

SENTENCE_ENDERS ==
  {".", "!", "?"}

\* the ASCII quote characters
QUOTE_CHARS ==
  {"\"", "'"}

\* the ASCII closing brackets
BRACKET_CLOSE ==
  {")", "]", "}"}

positiveWords ==
  {
    "good", "great", "excellent", "amazing", "wonderful", "fantastic", "awesome", "best",
    "love", "happy", "beautiful", "perfect", "incredible", "brilliant", "outstanding",
    "superb", "magnificent", "exceptional", "positive", "success", "win", "winning", "joy",
    "exciting", "excited"
  }

negativeWords ==
  {
    "bad", "terrible", "awful", "horrible", "worst", "hate", "sad", "ugly", "poor",
    "disappointing", "disappointed", "negative", "fail", "failure", "lose", "losing", "angry",
    "boring", "bored", "annoying", "annoyed", "frustrating", "frustrated", "painful", "pain",
    "wrong"
  }

(* ---------------------------------------------------------------------- *)
(* Sentence splitter                                                       *)
(* ---------------------------------------------------------------------- *)

\* the capacity of the splitter's cache
SplitterMaxCacheSize ==
  500

\* the length of the text prefix that keys the splitter's cache
SplitterKeyLength ==
  200

\* the value of a search that found nothing: null or undefined
None ==
  ""

\* the scan of getWordBefore: the offset before the run of letters ending at start
LettersBack(text, start) ==
  start - First(0, start + 1, LAMBDA k : CharAt(text, start - k) \notin Letters, start + 1)

getWordBefore(text, pos) ==
  LET start == LettersBack(text, pos - 1)
  IN IF start + 1 < pos THEN Substring(text, start + 1, pos) ELSE None

getWordAfter(text, pos) ==
  LET start == SkipWhile(text, pos, SpaceChars)
      end == SkipWhile(text, start, Letters)
  IN IF start < end THEN Substring(text, start, end) ELSE None

getNextNonSpace(text, pos) ==
  CharAt(text, SkipWhile(text, pos, SpaceChars))

\* /https?:\/\/|www\.|@\w+\./
urlOrEmailHint ==
  Alt(<<Cat(<<Lit("http"), Rep(Lit("s"), 0, 1), Lit("://")>>),
        Lit("www."),
        Cat(<<Lit("@"), Many(Set(WordChars, FALSE), 1), Lit(".")>>)>>)

\* /https?:\/\/[^\s]+|www\.[^\s]+/
urlRegex ==
  Alt(<<Cat(<<Lit("http"), Rep(Lit("s"), 0, 1), Lit("://"),
              Many(Set(SpaceChars, TRUE), 1)>>),
        Cat(<<Lit("www."), Many(Set(SpaceChars, TRUE), 1)>>)>>)

\* does the first URL of the surrounding text cover the relative position
UrlCovers(surroundingText, urlMatch, relativePos) ==
  /\ urlMatch # <<>>
  /\ LET matched == Substring(surroundingText, urlMatch[1], urlMatch[2])
         urlStart == IndexOfFrom(surroundingText, matched, 0)
     IN relativePos >= urlStart /\ relativePos < urlStart + Len(matched)

\* the URL test on the 100 characters around the period
SurroundingUrl(surroundingText, relativePos) ==
  /\ Test(urlOrEmailHint, surroundingText, FALSE)
  /\ UrlCovers(surroundingText, ExecFrom(urlRegex, surroundingText, 0, FALSE), relativePos)

\* the URL test of isSentenceBoundary: is the period taken to lie inside a URL
InsideUrl(text, pos) ==
  LET from == IF pos - 50 > 0 THEN pos - 50 ELSE 0
      to == IF Len(text) < pos + 50 THEN Len(text) ELSE pos + 50
  IN SurroundingUrl(Substring(text, from, to), 50 - (from - 0))

isSentenceBoundary(text, pos) ==
  LET char == CharAt(text, pos)
      wordBefore == getWordBefore(text, pos)
      nextNonSpace == getNextNonSpace(text, pos + 1)
      charBefore == IF pos > 0 THEN CharAt(text, pos - 1) ELSE ""
      charAfter == IF pos < Len(text) - 1 THEN CharAt(text, pos + 1) ELSE ""
  IN IF char = "?" \/ char = "!" THEN TRUE
     ELSE IF char # "." THEN FALSE
     ELSE IF wordBefore # None /\ ToLowerCase(wordBefore) \in ALL_ABBREVIATIONS
       THEN IF nextNonSpace \in CharsOf(UpperLetters)
            THEN ~(/\ getWordAfter(text, pos) # None
                   /\ ToLowerCase(wordBefore) \in ABBREVIATIONS_titles)
            ELSE FALSE
     ELSE IF charBefore \in Digits /\ charAfter \in Digits THEN FALSE
     ELSE IF pos < Len(text) - 2 /\ Substring(text, pos, pos + 3) = "..." THEN FALSE
     ELSE IF /\ wordBefore # None /\ Len(wordBefore) = 1
             /\ wordBefore \in CharsOf(UpperLetters)
             /\ nextNonSpace \in CharsOf(UpperLetters) THEN FALSE
     ELSE IF InsideUrl(text, pos) THEN FALSE
     ELSE IF nextNonSpace = None THEN TRUE
     ELSE IF nextNonSpace \in CharsOf(UpperLetters) THEN TRUE
     ELSE IF nextNonSpace \in CharsOf(LowerLetters) THEN FALSE
     ELSE TRUE

\* the offsets of the sentence enders that are boundaries, in increasing order
BoundaryOffsets(text) ==
  SortedSeq({i \in 0..(Len(text) - 1) :
               CharAt(text, i) \in SENTENCE_ENDERS /\ isSentenceBoundary(text, i)})

\* where each boundary ends: after the quotes and closing brackets that follow
\* its ender
BoundaryEnds(text, at) ==
  [k \in DOMAIN at |-> SkipWhile(text, at[k] + 1, QUOTE_CHARS \cup BRACKET_CLOSE)]

\* each boundary starts where the previous one ended
BoundarySpans(endPos) ==
  [k \in DOMAIN endPos |->
     [start |-> IF k = 1 THEN 0 ELSE endPos[k - 1], end |-> endPos[k]]]

findBoundaries(text) ==
  BoundarySpans(BoundaryEnds(text, BoundaryOffsets(text)))
\* the first token with the property, as a one-element sequence; <<>> if none
Find(tokens, P(_)) ==
  LET I == {k \in DOMAIN tokens : P(tokens[k])}
  IN IF I = {} THEN <<>> ELSE <<tokens[CHOOSE k \in I : \A j \in I : k <= j]>>

detectSentenceType(text, tokens) ==
  LET trimmed == Trim(text)
      firstWord == Find(tokens, LAMBDA t : t.isAlpha /\ ~t.isStopWord)
      firstAlpha == Find(tokens, LAMBDA t : t.isAlpha)
  IN IF EndsWith(trimmed, "?") THEN "interrogative"
     ELSE IF EndsWith(trimmed, "!") THEN "exclamatory"
     ELSE IF /\ firstWord # <<>> /\ firstWord[1].pos = "VERB"
             /\ firstAlpha[1].pos = "VERB" /\ firstAlpha[1].index = firstWord[1].index
          THEN "imperative"
     ELSE "declarative"

Vowels ==
  CharsOf("aeiouy")

\* the number of vowel groups of a lower-case word
VowelGroups(lower) ==
  Cardinality({i \in 1..Len(lower) :
                 /\ SubSeq(lower, i, i) \in Vowels
                 /\ (i = 1 \/ SubSeq(lower, i - 1, i - 1) \notin Vowels)})

\* the adjustments of countSyllables to the number of vowel groups
Syllables(lower, count) ==
  LET silentE == IF EndsWith(lower, "e") /\ count > 1 THEN count - 1 ELSE count
      suffixLe == IF /\ EndsWith(lower, "le") /\ Len(lower) > 2
                     /\ CharAt(lower, Len(lower) - 3) \notin Vowels
                  THEN silentE + 1 ELSE silentE
  IN IF Len(lower) <= 3 THEN 1 ELSE IF suffixLe < 1 THEN 1 ELSE suffixLe

countSyllables(word) ==
  Syllables(ToLowerCase(word), VowelGroups(ToLowerCase(word)))

RECURSIVE Sum(_)
\* the sum of a sequence of integers
Sum(xs) ==
  IF xs = <<>> THEN 0 ELSE Head(xs) + Sum(Tail(xs))

clauseIndicators ==
  {",", ";", "and", "but", "or", "because", "although", "while", "when", "if", "that",
   "which", "who"}

\* the four factors of the complexity score, 25 points each
ComplexityScore(wordCount, totalLength, syllableCount, clauseCount) ==
  IF wordCount = 0 THEN Zero
  ELSE Add(Add(Mul(Min(Num(totalLength, wordCount * 8), One), Num(25, 1)),
               Mul(Min(Num(syllableCount, wordCount * 3), One), Num(25, 1))),
           Add(Mul(Min(Num(clauseCount, 4), One), Num(25, 1)),
               Mul(Min(Num(wordCount, 30), One), Num(25, 1))))

\* the counts analyzeComplexity takes over the alphabetic tokens
WordComplexity(tokens, words) ==
  ComplexityScore(Len(words),
                  Sum([k \in DOMAIN words |-> Len(words[k].text)]),
                  Sum([k \in DOMAIN words |-> countSyllables(words[k].text)]),
                  1 + Len(SelectSeq(tokens, LAMBDA t :
                            ToLowerCase(t.text) \in clauseIndicators)))

\* the complexityScore of analyzeComplexity
analyzeComplexity(tokens) ==
  WordComplexity(tokens, SelectSeq(tokens, LAMBDA t : t.isAlpha))

\* does reading lemma.toLowerCase() of some token raise a TypeError: the lemma
\* of that token is not a string
LemmaThrows(tokens) ==
  \E k \in DOMAIN tokens : tokens[k].lemma = ObjectFn

\* the score calculateBasicSentiment makes of its two counts
BasicSentiment(positive, negative) ==
  LET total == positive + negative
      positiveScore == Num(positive, total)
      negativeScore == Num(negative, total)
  IN IF total = 0
     THEN [overall |-> Zero, positive |-> Zero, negative |-> Zero, neutral |-> One,
           confidence |-> Num(1, 2)]
     ELSE [overall |-> Sub(positiveScore, negativeScore),
           positive |-> positiveScore,
           negative |-> negativeScore,
           neutral |-> Sub(One, Add(positiveScore, negativeScore)),
           confidence |-> Min(Num(total, 5), One)]

\* the placeholder per-sentence sentiment of the splitter
calculateBasicSentiment(tokens) ==
  BasicSentiment(
    Len(SelectSeq(tokens, LAMBDA t : ToLowerCase(t.lemma) \in positiveWords)),
    Len(SelectSeq(tokens, LAMBDA t :
          /\ ToLowerCase(t.lemma) \notin positiveWords
          /\ ToLowerCase(t.lemma) \in negativeWords)))
\* the spans of the boundaries, then the span of the remaining text; spans
\* whose trimmed text is empty are dropped
SpansOf(text, boundaries) ==
  LET lastEnd == IF boundaries = <<>> THEN 0 ELSE boundaries[Len(boundaries)].end
      cut == [i \in DOMAIN boundaries |->
                [startChar |-> IF i = 1 THEN 0 ELSE boundaries[i - 1].end,
                 endChar |-> boundaries[i].end]]
      all == IF lastEnd < Len(text)
             THEN Append(cut, [startChar |-> lastEnd, endChar |-> Len(text)])
             ELSE cut
  IN SelectSeq(all, LAMBDA s : Trim(Substring(text, s.startChar, s.endChar)) # "")

\* the spans split cuts the text into: one per boundary, then the remaining text
SentenceSpans(text) ==
  SpansOf(text, findBoundaries(text))
(* ---------------------------------------------------------------------- *)
(* Sentiment analyzer: lexicon, intensifiers, diminishers, negations       *)
(* ---------------------------------------------------------------------- *)

SENTIMENT_LEXICON ==
  ObjectOf(<<
    <<"amazing", [score |-> 4, intensity |-> Num(9, 10), emotions |-> <<"joy", "surprise">>]>>,
    <<"awesome", [score |-> 4, intensity |-> Num(17, 20), emotions |-> <<"joy">>]>>,
    <<"beautiful", [score |-> 3, intensity |-> Num(7, 10), emotions |-> <<"joy", "love">>]>>,
    <<"best", [score |-> 4, intensity |-> Num(4, 5), emotions |-> <<"joy">>]>>,
    <<"brilliant", [score |-> 4, intensity |-> Num(17, 20), emotions |-> <<"joy", "surprise">>]>>,
    <<"celebrate", [score |-> 3, intensity |-> Num(3, 4), emotions |-> <<"joy">>]>>,
    <<"champion", [score |-> 3, intensity |-> Num(7, 10), emotions |-> <<"joy", "pride">>]>>,
    <<"charming", [score |-> 3, intensity |-> Num(13, 20), emotions |-> <<"love", "joy">>]>>,
    <<"delight", [score |-> 4, intensity |-> Num(4, 5), emotions |-> <<"joy">>]>>,
    <<"delightful", [score |-> 4, intensity |-> Num(4, 5), emotions |-> <<"joy">>]>>,
    <<"excellent", [score |-> 4, intensity |-> Num(17, 20), emotions |-> <<"joy">>]>>,
    <<"exceptional", [score |-> 4, intensity |-> Num(17, 20), emotions |-> <<"joy", "surprise">>]>>,
    <<"exciting", [score |-> 3, intensity |-> Num(3, 4), emotions |-> <<"joy", "anticipation">>]>>,
    <<"extraordinary", [score |-> 4, intensity |-> Num(17, 20), emotions |-> <<"surprise", "joy">>]>>,
    <<"fabulous", [score |-> 4, intensity |-> Num(17, 20), emotions |-> <<"joy">>]>>,
    <<"fantastic", [score |-> 4, intensity |-> Num(17, 20), emotions |-> <<"joy">>]>>,
    <<"favorite", [score |-> 3, intensity |-> Num(7, 10), emotions |-> <<"love", "joy">>]>>,
    <<"genius", [score |-> 4, intensity |-> Num(17, 20), emotions |-> <<"admiration", "surprise">>]>>,
    <<"glorious", [score |-> 4, intensity |-> Num(4, 5), emotions |-> <<"joy", "admiration">>]>>,
    <<"gorgeous", [score |-> 4, intensity |-> Num(4, 5), emotions |-> <<"love", "joy">>]>>,
    <<"great", [score |-> 3, intensity |-> Num(7, 10), emotions |-> <<"joy">>]>>,
    <<"happy", [score |-> 3, intensity |-> Num(3, 4), emotions |-> <<"joy">>]>>,
    <<"incredible", [score |-> 4, intensity |-> Num(17, 20), emotions |-> <<"surprise", "joy">>]>>,
    <<"inspiring", [score |-> 3, intensity |-> Num(3, 4), emotions |-> <<"admiration", "joy">>]>>,
    <<"legendary", [score |-> 4, intensity |-> Num(17, 20), emotions |-> <<"admiration", "surprise">>]>>,
    <<"love", [score |-> 4, intensity |-> Num(9, 10), emotions |-> <<"love", "joy">>]>>,
    <<"lovely", [score |-> 3, intensity |-> Num(7, 10), emotions |-> <<"love", "joy">>]>>,
    <<"magnificent", [score |-> 4, intensity |-> Num(17, 20), emotions |-> <<"admiration", "joy">>]>>,
    <<"marvelous", [score |-> 4, intensity |-> Num(17, 20), emotions |-> <<"joy", "surprise">>]>>,
    <<"masterpiece", [score |-> 5, intensity |-> Num(19, 20), emotions |-> <<"admiration", "joy">>]>>,
    <<"outstanding", [score |-> 4, intensity |-> Num(17, 20), emotions |-> <<"joy", "admiration">>]>>,
    <<"perfect", [score |-> 5, intensity |-> Num(19, 20), emotions |-> <<"joy">>]>>,
    <<"phenomenal", [score |-> 4, intensity |-> Num(9, 10), emotions |-> <<"surprise", "joy">>]>>,
    <<"remarkable", [score |-> 3, intensity |-> Num(3, 4), emotions |-> <<"surprise", "joy">>]>>,
    <<"sensational", [score |-> 4, intensity |-> Num(17, 20), emotions |-> <<"surprise", "joy">>]>>,
    <<"spectacular", [score |-> 4, intensity |-> Num(17, 20), emotions |-> <<"surprise", "joy">>]>>,
    <<"stunning", [score |-> 4, intensity |-> Num(17, 20), emotions |-> <<"surprise", "joy">>]>>,
    <<"sublime", [score |-> 4, intensity |-> Num(17, 20), emotions |-> <<"joy", "admiration">>]>>,
    <<"superb", [score |-> 4, intensity |-> Num(17, 20), emotions |-> <<"joy">>]>>,
    <<"superior", [score |-> 3, intensity |-> Num(7, 10), emotions |-> <<"pride", "joy">>]>>,
    <<"terrific", [score |-> 4, intensity |-> Num(4, 5), emotions |-> <<"joy">>]>>,
    <<"thrilled", [score |-> 4, intensity |-> Num(17, 20), emotions |-> <<"joy", "excitement">>]>>,
    <<"triumph", [score |-> 4, intensity |-> Num(4, 5), emotions |-> <<"joy", "pride">>]>>,
    <<"unbelievable", [score |-> 4, intensity |-> Num(17, 20), emotions |-> <<"surprise">>]>>,
    <<"victory", [score |-> 3, intensity |-> Num(3, 4), emotions |-> <<"joy", "pride">>]>>,
    <<"viral", [score |-> 3, intensity |-> Num(7, 10), emotions |-> <<"excitement", "joy">>]>>,
    <<"win", [score |-> 3, intensity |-> Num(7, 10), emotions |-> <<"joy", "pride">>]>>,
    <<"winner", [score |-> 3, intensity |-> Num(7, 10), emotions |-> <<"joy", "pride">>]>>,
    <<"wonderful", [score |-> 4, intensity |-> Num(17, 20), emotions |-> <<"joy">>]>>,
    <<"wow", [score |-> 3, intensity |-> Num(4, 5), emotions |-> <<"surprise", "joy">>]>>,
    <<"accept", [score |-> 1, intensity |-> Num(2, 5), emotions |-> <<"trust">>]>>,
    <<"accomplished", [score |-> 2, intensity |-> Num(3, 5), emotions |-> <<"pride", "joy">>]>>,
    <<"achievement", [score |-> 2, intensity |-> Num(3, 5), emotions |-> <<"pride">>]>>,
    <<"admire", [score |-> 2, intensity |-> Num(3, 5), emotions |-> <<"admiration">>]>>,
    <<"agree", [score |-> 1, intensity |-> Num(2, 5), emotions |-> <<"trust">>]>>,
    <<"amusing", [score |-> 2, intensity |-> Num(1, 2), emotions |-> <<"joy", "amusement">>]>>,
    <<"appreciate", [score |-> 2, intensity |-> Num(3, 5), emotions |-> <<"gratitude">>]>>,
    <<"approval", [score |-> 2, intensity |-> Num(1, 2), emotions |-> <<"trust">>]>>,
    <<"attractive", [score |-> 2, intensity |-> Num(1, 2), emotions |-> <<"love">>]>>,
    <<"benefit", [score |-> 2, intensity |-> Num(1, 2), emotions |-> <<"joy">>]>>,
    <<"calm", [score |-> 2, intensity |-> Num(1, 2), emotions |-> <<"serenity">>]>>,
    <<"capable", [score |-> 2, intensity |-> Num(1, 2), emotions |-> <<"trust">>]>>,
    <<"care", [score |-> 2, intensity |-> Num(3, 5), emotions |-> <<"love">>]>>,
    <<"comfortable", [score |-> 2, intensity |-> Num(1, 2), emotions |-> <<"serenity">>]>>,
    <<"confidence", [score |-> 2, intensity |-> Num(3, 5), emotions |-> <<"trust">>]>>,
    <<"cool", [score |-> 2, intensity |-> Num(1, 2), emotions |-> <<"joy">>]>>,
    <<"creative", [score |-> 2, intensity |-> Num(3, 5), emotions |-> <<"joy">>]>>,
    <<"curious", [score |-> 1, intensity |-> Num(1, 2), emotions |-> <<"anticipation">>]>>,
    <<"easy", [score |-> 1, intensity |-> Num(2, 5), emotions |-> <<"serenity">>]>>,
    <<"effective", [score |-> 2, intensity |-> Num(1, 2), emotions |-> <<"trust">>]>>,
    <<"efficient", [score |-> 2, intensity |-> Num(1, 2), emotions |-> <<"trust">>]>>,
    <<"elegant", [score |-> 2, intensity |-> Num(3, 5), emotions |-> <<"admiration">>]>>,
    <<"encourage", [score |-> 2, intensity |-> Num(3, 5), emotions |-> <<"trust", "joy">>]>>,
    <<"enjoy", [score |-> 2, intensity |-> Num(3, 5), emotions |-> <<"joy">>]>>,
    <<"entertaining", [score |-> 2, intensity |-> Num(1, 2), emotions |-> <<"joy", "amusement">>]>>,
    <<"enthusiastic", [score |-> 2, intensity |-> Num(7, 10), emotions |-> <<"joy", "anticipation">>]>>,
    <<"free", [score |-> 2, intensity |-> Num(1, 2), emotions |-> <<"joy">>]>>,
    <<"fresh", [score |-> 1, intensity |-> Num(2, 5), emotions |-> <<"joy">>]>>,
    <<"friendly", [score |-> 2, intensity |-> Num(1, 2), emotions |-> <<"love", "trust">>]>>,
    <<"fun", [score |-> 2, intensity |-> Num(3, 5), emotions |-> <<"joy">>]>>,
    <<"generous", [score |-> 2, intensity |-> Num(3, 5), emotions |-> <<"love">>]>>,
    <<"glad", [score |-> 2, intensity |-> Num(3, 5), emotions |-> <<"joy">>]>>,
    <<"good", [score |-> 2, intensity |-> Num(1, 2), emotions |-> <<"joy">>]>>,
    <<"grateful", [score |-> 2, intensity |-> Num(7, 10), emotions |-> <<"gratitude">>]>>,
    <<"growth", [score |-> 2, intensity |-> Num(1, 2), emotions |-> <<"anticipation">>]>>,
    <<"helpful", [score |-> 2, intensity |-> Num(1, 2), emotions |-> <<"trust">>]>>,
    <<"honest", [score |-> 2, intensity |-> Num(1, 2), emotions |-> <<"trust">>]>>,
    <<"hope", [score |-> 2, intensity |-> Num(3, 5), emotions |-> <<"anticipation", "optimism">>]>>,
    <<"improve", [score |-> 2, intensity |-> Num(1, 2), emotions |-> <<"optimism">>]>>,
    <<"innovative", [score |-> 2, intensity |-> Num(3, 5), emotions |-> <<"surprise", "admiration">>]>>,
    <<"insight", [score |-> 2, intensity |-> Num(1, 2), emotions |-> <<"trust">>]>>,
    <<"intelligent", [score |-> 2, intensity |-> Num(1, 2), emotions |-> <<"admiration">>]>>,
    <<"interesting", [score |-> 2, intensity |-> Num(1, 2), emotions |-> <<"anticipation">>]>>,
    <<"kind", [score |-> 2, intensity |-> Num(3, 5), emotions |-> <<"love">>]>>,
    <<"laugh", [score |-> 2, intensity |-> Num(3, 5), emotions |-> <<"joy", "amusement">>]>>,
    <<"learn", [score |-> 1, intensity |-> Num(2, 5), emotions |-> <<"anticipation">>]>>,
    <<"like", [score |-> 2, intensity |-> Num(1, 2), emotions |-> <<"joy">>]>>,
    <<"lucky", [score |-> 2, intensity |-> Num(1, 2), emotions |-> <<"joy">>]>>,
    <<"motivated", [score |-> 2, intensity |-> Num(3, 5), emotions |-> <<"anticipation">>]>>,
    <<"natural", [score |-> 1, intensity |-> Num(2, 5), emotions |-> <<"serenity">>]>>,
    <<"nice", [score |-> 2, intensity |-> Num(1, 2), emotions |-> <<"joy">>]>>,
    <<"opportunity", [score |-> 2, intensity |-> Num(1, 2), emotions |-> <<"anticipation">>]>>,
    <<"optimistic", [score |-> 2, intensity |-> Num(3, 5), emotions |-> <<"optimism">>]>>,
    <<"peaceful", [score |-> 2, intensity |-> Num(1, 2), emotions |-> <<"serenity">>]>>,
    <<"pleasant", [score |-> 2, intensity |-> Num(1, 2), emotions |-> <<"joy">>]>>,
    <<"pleased", [score |-> 2, intensity |-> Num(3, 5), emotions |-> <<"joy">>]>>,
    <<"popular", [score |-> 2, intensity |-> Num(1, 2), emotions |-> <<"joy">>]>>,
    <<"positive", [score |-> 2, intensity |-> Num(1, 2), emotions |-> <<"optimism">>]>>,
    <<"powerful", [score |-> 2, intensity |-> Num(3, 5), emotions |-> <<"admiration">>]>>,
    <<"pretty", [score |-> 2, intensity |-> Num(1, 2), emotions |-> <<"love">>]>>,
    <<"progress", [score |-> 2, intensity |-> Num(1, 2), emotions |-> <<"optimism">>]>>,
    <<"proud", [score |-> 2, intensity |-> Num(7, 10), emotions |-> <<"pride">>]>>,
    <<"quality", [score |-> 2, intensity |-> Num(1, 2), emotions |-> <<"trust">>]>>,
    <<"recommend", [score |-> 2, intensity |-> Num(1, 2), emotions |-> <<"trust">>]>>,
    <<"relax", [score |-> 2, intensity |-> Num(1, 2), emotions |-> <<"serenity">>]>>,
    <<"reliable", [score |-> 2, intensity |-> Num(1, 2), emotions |-> <<"trust">>]>>,
    <<"respect", [score |-> 2, intensity |-> Num(3, 5), emotions |-> <<"admiration">>]>>,
    <<"safe", [score |-> 2, intensity |-> Num(1, 2), emotions |-> <<"trust", "serenity">>]>>,
    <<"satisfied", [score |-> 2, intensity |-> Num(3, 5), emotions |-> <<"joy">>]>>,
    <<"secure", [score |-> 2, intensity |-> Num(1, 2), emotions |-> <<"trust">>]>>,
    <<"simple", [score |-> 1, intensity |-> Num(2, 5), emotions |-> <<"serenity">>]>>,
    <<"smart", [score |-> 2, intensity |-> Num(1, 2), emotions |-> <<"admiration">>]>>,
    <<"smile", [score |-> 2, intensity |-> Num(3, 5), emotions |-> <<"joy">>]>>,
    <<"smooth", [score |-> 1, intensity |-> Num(2, 5), emotions |-> <<"serenity">>]>>,
    <<"special", [score |-> 2, intensity |-> Num(1, 2), emotions |-> <<"joy", "love">>]>>,
    <<"strong", [score |-> 2, intensity |-> Num(1, 2), emotions |-> <<"trust">>]>>,
    <<"succeed", [score |-> 2, intensity |-> Num(3, 5), emotions |-> <<"joy", "pride">>]>>,
    <<"success", [score |-> 3, intensity |-> Num(7, 10), emotions |-> <<"joy", "pride">>]>>,
    <<"support", [score |-> 2, intensity |-> Num(1, 2), emotions |-> <<"trust">>]>>,
    <<"sweet", [score |-> 2, intensity |-> Num(1, 2), emotions |-> <<"love", "joy">>]>>,
    <<"thank", [score |-> 2, intensity |-> Num(3, 5), emotions |-> <<"gratitude">>]>>,
    <<"trust", [score |-> 2, intensity |-> Num(3, 5), emotions |-> <<"trust">>]>>,
    <<"unique", [score |-> 2, intensity |-> Num(1, 2), emotions |-> <<"surprise">>]>>,
    <<"useful", [score |-> 2, intensity |-> Num(1, 2), emotions |-> <<"trust">>]>>,
    <<"valuable", [score |-> 2, intensity |-> Num(1, 2), emotions |-> <<"trust">>]>>,
    <<"warm", [score |-> 2, intensity |-> Num(1, 2), emotions |-> <<"love">>]>>,
    <<"welcome", [score |-> 2, intensity |-> Num(1, 2), emotions |-> <<"trust", "joy">>]>>,
    <<"worth", [score |-> 2, intensity |-> Num(1, 2), emotions |-> <<"trust">>]>>,
    <<"annoy", [score |-> -2, intensity |-> Num(1, 2), emotions |-> <<"anger">>]>>,
    <<"anxious", [score |-> -2, intensity |-> Num(3, 5), emotions |-> <<"fear", "anticipation">>]>>,
    <<"bad", [score |-> -2, intensity |-> Num(1, 2), emotions |-> <<"sadness">>]>>,
    <<"bored", [score |-> -2, intensity |-> Num(2, 5), emotions |-> <<"sadness">>]>>,
    <<"boring", [score |-> -2, intensity |-> Num(2, 5), emotions |-> <<"sadness">>]>>,
    <<"concern", [score |-> -1, intensity |-> Num(2, 5), emotions |-> <<"fear">>]>>,
    <<"confused", [score |-> -1, intensity |-> Num(2, 5), emotions |-> <<"surprise">>]>>,
    <<"criticism", [score |-> -2, intensity |-> Num(1, 2), emotions |-> <<"anger">>]>>,
    <<"delay", [score |-> -1, intensity |-> Num(2, 5), emotions |-> <<"anger">>]>>,
    <<"difficult", [score |-> -1, intensity |-> Num(2, 5), emotions |-> <<"fear">>]>>,
    <<"disappoint", [score |-> -2, intensity |-> Num(3, 5), emotions |-> <<"sadness">>]>>,
    <<"disappointed", [score |-> -2, intensity |-> Num(3, 5), emotions |-> <<"sadness">>]>>,
    <<"dislike", [score |-> -2, intensity |-> Num(1, 2), emotions |-> <<"disgust">>]>>,
    <<"doubt", [score |-> -1, intensity |-> Num(2, 5), emotions |-> <<"fear">>]>>,
    <<"dull", [score |-> -1, intensity |-> Num(3, 10), emotions |-> <<"sadness">>]>>,
    <<"empty", [score |-> -1, intensity |-> Num(2, 5), emotions |-> <<"sadness">>]>>,
    <<"exhausted", [score |-> -2, intensity |-> Num(1, 2), emotions |-> <<"sadness">>]>>,
    <<"fail", [score |-> -2, intensity |-> Num(3, 5), emotions |-> <<"sadness">>]>>,
    <<"failure", [score |-> -2, intensity |-> Num(3, 5), emotions |-> <<"sadness">>]>>,
    <<"fault", [score |-> -2, intensity |-> Num(1, 2), emotions |-> <<"anger">>]>>,
    <<"fear", [score |-> -2, intensity |-> Num(7, 10), emotions |-> <<"fear">>]>>,
    <<"frustrated", [score |-> -2, intensity |-> Num(3, 5), emotions |-> <<"anger">>]>>,
    <<"frustrating", [score |-> -2, intensity |-> Num(3, 5), emotions |-> <<"anger">>]>>,
    <<"guilty", [score |-> -2, intensity |-> Num(3, 5), emotions |-> <<"sadness", "fear">>]>>,
    <<"hard", [score |-> -1, intensity |-> Num(3, 10), emotions |-> <<"fear">>]>>,
    <<"ignore", [score |-> -1, intensity |-> Num(2, 5), emotions |-> <<"sadness">>]>>,
    <<"impatient", [score |-> -1, intensity |-> Num(2, 5), emotions |-> <<"anger">>]>>,
    <<"jealous", [score |-> -2, intensity |-> Num(3, 5), emotions |-> <<"anger", "sadness">>]>>,
    <<"lack", [score |-> -1, intensity |-> Num(2, 5), emotions |-> <<"sadness">>]>>,
    <<"late", [score |-> -1, intensity |-> Num(3, 10), emotions |-> <<"anger">>]>>,
    <<"lazy", [score |-> -1, intensity |-> Num(2, 5), emotions |-> <<"disgust">>]>>,
    <<"limit", [score |-> -1, intensity |-> Num(3, 10), emotions |-> <<"sadness">>]>>,
    <<"lonely", [score |-> -2, intensity |-> Num(3, 5), emotions |-> <<"sadness">>]>>,
    <<"lose", [score |-> -2, intensity |-> Num(3, 5), emotions |-> <<"sadness">>]>>,
    <<"loss", [score |-> -2, intensity |-> Num(3, 5), emotions |-> <<"sadness">>]>>,
    <<"mad", [score |-> -2, intensity |-> Num(3, 5), emotions |-> <<"anger">>]>>,
    <<"mess", [score |-> -1, intensity |-> Num(2, 5), emotions |-> <<"disgust">>]>>,
    <<"miss", [score |-> -1, intensity |-> Num(2, 5), emotions |-> <<"sadness">>]>>,
    <<"mistake", [score |-> -2, intensity |-> Num(1, 2), emotions |-> <<"sadness">>]>>,
    <<"negative", [score |-> -2, intensity |-> Num(1, 2), emotions |-> <<"sadness">>]>>,
    <<"nervous", [score |-> -2, intensity |-> Num(1, 2), emotions |-> <<"fear">>]>>,
    <<"problem", [score |-> -2, intensity |-> Num(1, 2), emotions |-> <<"sadness">>]>>,
    <<"regret", [score |-> -2, intensity |-> Num(3, 5), emotions |-> <<"sadness">>]>>,
    <<"reject", [score |-> -2, intensity |-> Num(3, 5), emotions |-> <<"sadness">>]>>,
    <<"risk", [score |-> -1, intensity |-> Num(2, 5), emotions |-> <<"fear">>]>>,
    <<"sad", [score |-> -2, intensity |-> Num(7, 10), emotions |-> <<"sadness">>]>>,
    <<"scare", [score |-> -2, intensity |-> Num(3, 5), emotions |-> <<"fear">>]>>,
    <<"slow", [score |-> -1, intensity |-> Num(3, 10), emotions |-> <<"anger">>]>>,
    <<"sorry", [score |-> -1, intensity |-> Num(1, 2), emotions |-> <<"sadness">>]>>,
    <<"stress", [score |-> -2, intensity |-> Num(3, 5), emotions |-> <<"fear", "anger">>]>>,
    <<"struggle", [score |-> -2, intensity |-> Num(1, 2), emotions |-> <<"sadness", "fear">>]>>,
    <<"stuck", [score |-> -1, intensity |-> Num(2, 5), emotions |-> <<"sadness">>]>>,
    <<"tired", [score |-> -1, intensity |-> Num(2, 5), emotions |-> <<"sadness">>]>>,
    <<"trouble", [score |-> -2, intensity |-> Num(1, 2), emotions |-> <<"fear">>]>>,
    <<"ugly", [score |-> -2, intensity |-> Num(1, 2), emotions |-> <<"disgust">>]>>,
    <<"uncomfortable", [score |-> -2, intensity |-> Num(2, 5), emotions |-> <<"fear">>]>>,
    <<"unfair", [score |-> -2, intensity |-> Num(3, 5), emotions |-> <<"anger">>]>>,
    <<"unhappy", [score |-> -2, intensity |-> Num(3, 5), emotions |-> <<"sadness">>]>>,
    <<"upset", [score |-> -2, intensity |-> Num(3, 5), emotions |-> <<"anger", "sadness">>]>>,
    <<"useless", [score |-> -2, intensity |-> Num(1, 2), emotions |-> <<"sadness">>]>>,
    <<"wait", [score |-> -1, intensity |-> Num(3, 10), emotions |-> <<"anticipation">>]>>,
    <<"weak", [score |-> -1, intensity |-> Num(2, 5), emotions |-> <<"fear">>]>>,
    <<"weird", [score |-> -1, intensity |-> Num(3, 10), emotions |-> <<"surprise", "disgust">>]>>,
    <<"worry", [score |-> -2, intensity |-> Num(3, 5), emotions |-> <<"fear">>]>>,
    <<"wrong", [score |-> -2, intensity |-> Num(1, 2), emotions |-> <<"sadness">>]>>,
    <<"abuse", [score |-> -4, intensity |-> Num(9, 10), emotions |-> <<"anger", "fear">>]>>,
    <<"angry", [score |-> -3, intensity |-> Num(4, 5), emotions |-> <<"anger">>]>>,
    <<"awful", [score |-> -4, intensity |-> Num(17, 20), emotions |-> <<"disgust">>]>>,
    <<"betray", [score |-> -4, intensity |-> Num(9, 10), emotions |-> <<"anger", "sadness">>]>>,
    <<"catastrophe", [score |-> -4, intensity |-> Num(9, 10), emotions |-> <<"fear", "sadness">>]>>,
    <<"cheat", [score |-> -3, intensity |-> Num(4, 5), emotions |-> <<"anger", "disgust">>]>>,
    <<"corrupt", [score |-> -3, intensity |-> Num(4, 5), emotions |-> <<"anger", "disgust">>]>>,
    <<"cruel", [score |-> -4, intensity |-> Num(17, 20), emotions |-> <<"anger", "fear">>]>>,
    <<"damage", [score |-> -3, intensity |-> Num(7, 10), emotions |-> <<"fear", "anger">>]>>,
    <<"danger", [score |-> -3, intensity |-> Num(4, 5), emotions |-> <<"fear">>]>>,
    <<"dangerous", [score |-> -3, intensity |-> Num(4, 5), emotions |-> <<"fear">>]>>,
    <<"dead", [score |-> -3, intensity |-> Num(4, 5), emotions |-> <<"sadness", "fear">>]>>,
    <<"death", [score |-> -4, intensity |-> Num(9, 10), emotions |-> <<"sadness", "fear">>]>>,
    <<"destroy", [score |-> -4, intensity |-> Num(17, 20), emotions |-> <<"anger", "fear">>]>>,
    <<"disaster", [score |-> -4, intensity |-> Num(9, 10), emotions |-> <<"fear", "sadness">>]>>,
    <<"disgust", [score |-> -3, intensity |-> Num(4, 5), emotions |-> <<"disgust">>]>>,
    <<"disgusting", [score |-> -4, intensity |-> Num(17, 20), emotions |-> <<"disgust">>]>>,
    <<"dread", [score |-> -3, intensity |-> Num(4, 5), emotions |-> <<"fear">>]>>,
    <<"enemy", [score |-> -3, intensity |-> Num(7, 10), emotions |-> <<"anger", "fear">>]>>,
    <<"evil", [score |-> -4, intensity |-> Num(9, 10), emotions |-> <<"fear", "anger">>]>>,
    <<"fake", [score |-> -3, intensity |-> Num(7, 10), emotions |-> <<"anger", "disgust">>]>>,
    <<"fraud", [score |-> -4, intensity |-> Num(17, 20), emotions |-> <<"anger", "disgust">>]>>,
    <<"grief", [score |-> -4, intensity |-> Num(9, 10), emotions |-> <<"sadness">>]>>,
    <<"hate", [score |-> -4, intensity |-> Num(9, 10), emotions |-> <<"anger">>]>>,
    <<"horrible", [score |-> -4, intensity |-> Num(17, 20), emotions |-> <<"fear", "disgust">>]>>,
    <<"horrify", [score |-> -4, intensity |-> Num(9, 10), emotions |-> <<"fear">>]>>,
    <<"horror", [score |-> -4, intensity |-> Num(9, 10), emotions |-> <<"fear">>]>>,
    <<"hurt", [score |-> -3, intensity |-> Num(7, 10), emotions |-> <<"sadness", "anger">>]>>,
    <<"idiot", [score |-> -3, intensity |-> Num(7, 10), emotions |-> <<"anger", "disgust">>]>>,
    <<"insult", [score |-> -3, intensity |-> Num(7, 10), emotions |-> <<"anger">>]>>,
    <<"kill", [score |-> -4, intensity |-> Num(9, 10), emotions |-> <<"fear", "anger">>]>>,
    <<"liar", [score |-> -3, intensity |-> Num(4, 5), emotions |-> <<"anger", "disgust">>]>>,
    <<"lie", [score |-> -3, intensity |-> Num(7, 10), emotions |-> <<"anger", "disgust">>]>>,
    <<"miserable", [score |-> -4, intensity |-> Num(17, 20), emotions |-> <<"sadness">>]>>,
    <<"murder", [score |-> -5, intensity |-> Num(1, 1), emotions |-> <<"fear", "anger">>]>>,
    <<"nightmare", [score |-> -4, intensity |-> Num(17, 20), emotions |-> <<"fear">>]>>,
    <<"pain", [score |-> -3, intensity |-> Num(7, 10), emotions |-> <<"sadness", "fear">>]>>,
    <<"pathetic", [score |-> -3, intensity |-> Num(7, 10), emotions |-> <<"disgust", "sadness">>]>>,
    <<"poison", [score |-> -3, intensity |-> Num(4, 5), emotions |-> <<"fear", "disgust">>]>>,
    <<"rage", [score |-> -4, intensity |-> Num(9, 10), emotions |-> <<"anger">>]>>,
    <<"ruin", [score |-> -3, intensity |-> Num(4, 5), emotions |-> <<"sadness", "anger">>]>>,
    <<"scam", [score |-> -4, intensity |-> Num(17, 20), emotions |-> <<"anger", "disgust">>]>>,
    <<"shame", [score |-> -3, intensity |-> Num(4, 5), emotions |-> <<"sadness">>]>>,
    <<"shit", [score |-> -3, intensity |-> Num(7, 10), emotions |-> <<"anger", "disgust">>]>>,
    <<"shock", [score |-> -3, intensity |-> Num(4, 5), emotions |-> <<"surprise", "fear">>]>>,
    <<"sick", [score |-> -2, intensity |-> Num(3, 5), emotions |-> <<"sadness", "disgust">>]>>,
    <<"spam", [score |-> -3, intensity |-> Num(3, 5), emotions |-> <<"anger", "disgust">>]>>,
    <<"stupid", [score |-> -3, intensity |-> Num(7, 10), emotions |-> <<"anger", "disgust">>]>>,
    <<"suffer", [score |-> -3, intensity |-> Num(4, 5), emotions |-> <<"sadness">>]>>,
    <<"terrible", [score |-> -4, intensity |-> Num(17, 20), emotions |-> <<"fear", "sadness">>]>>,
    <<"terrify", [score |-> -4, intensity |-> Num(9, 10), emotions |-> <<"fear">>]>>,
    <<"terror", [score |-> -4, intensity |-> Num(9, 10), emotions |-> <<"fear">>]>>,
    <<"threat", [score |-> -3, intensity |-> Num(4, 5), emotions |-> <<"fear">>]>>,
    <<"toxic", [score |-> -3, intensity |-> Num(4, 5), emotions |-> <<"disgust", "fear">>]>>,
    <<"tragedy", [score |-> -4, intensity |-> Num(9, 10), emotions |-> <<"sadness">>]>>,
    <<"tragic", [score |-> -4, intensity |-> Num(17, 20), emotions |-> <<"sadness">>]>>,
    <<"trauma", [score |-> -4, intensity |-> Num(9, 10), emotions |-> <<"fear", "sadness">>]>>,
    <<"victim", [score |-> -3, intensity |-> Num(7, 10), emotions |-> <<"sadness", "fear">>]>>,
    <<"violence", [score |-> -4, intensity |-> Num(9, 10), emotions |-> <<"fear", "anger">>]>>,
    <<"violent", [score |-> -4, intensity |-> Num(17, 20), emotions |-> <<"fear", "anger">>]>>,
    <<"waste", [score |-> -2, intensity |-> Num(1, 2), emotions |-> <<"sadness", "anger">>]>>,
    <<"worst", [score |-> -4, intensity |-> Num(17, 20), emotions |-> <<"sadness", "anger">>]>>,
    <<"worthless", [score |-> -3, intensity |-> Num(4, 5), emotions |-> <<"sadness">>]>>
  >>)

INTENSIFIERS ==
  ObjectOf(<<
    <<"absolutely", Num(3, 2)>>, <<"completely", Num(7, 5)>>, <<"definitely", Num(13, 10)>>,
    <<"extremely", Num(3, 2)>>, <<"greatly", Num(13, 10)>>, <<"highly", Num(13, 10)>>,
    <<"incredibly", Num(3, 2)>>, <<"insanely", Num(8, 5)>>, <<"literally", Num(6, 5)>>,
    <<"particularly", Num(6, 5)>>, <<"perfectly", Num(7, 5)>>, <<"purely", Num(13, 10)>>,
    <<"quite", Num(6, 5)>>, <<"really", Num(13, 10)>>, <<"remarkably", Num(13, 10)>>,
    <<"so", Num(13, 10)>>, <<"super", Num(7, 5)>>, <<"totally", Num(7, 5)>>,
    <<"truly", Num(13, 10)>>, <<"utterly", Num(3, 2)>>, <<"very", Num(13, 10)>>
  >>)

DIMINISHERS ==
  ObjectOf(<<
    <<"a bit", Num(3, 5)>>, <<"a little", Num(3, 5)>>, <<"barely", Num(2, 5)>>,
    <<"fairly", Num(7, 10)>>, <<"hardly", Num(3, 10)>>, <<"kind of", Num(3, 5)>>,
    <<"kinda", Num(3, 5)>>, <<"less", Num(3, 5)>>, <<"marginally", Num(1, 2)>>,
    <<"merely", Num(1, 2)>>, <<"mildly", Num(3, 5)>>, <<"moderately", Num(7, 10)>>,
    <<"only", Num(7, 10)>>, <<"partially", Num(3, 5)>>, <<"pretty", Num(4, 5)>>,
    <<"rather", Num(7, 10)>>, <<"slightly", Num(1, 2)>>, <<"somewhat", Num(3, 5)>>,
    <<"sort of", Num(3, 5)>>, <<"sorta", Num(3, 5)>>
  >>)

NEGATIONS ==
  {
    "not", "n't", "no", "never", "neither", "nobody", "nothing", "nowhere", "none", "without",
    "hardly", "barely", "scarcely", "seldom", "rarely", "don't", "doesn't", "didn't", "won't",
    "wouldn't", "couldn't", "shouldn't", "can't", "cannot"
  }

(* ---------------------------------------------------------------------- *)
(* Sentiment analyzer                                                      *)
(* ---------------------------------------------------------------------- *)

\* the capacity of the analyzer's cache
SentimentMaxCacheSize ==
  1000

\* the length of the text prefix that keys the analyzer's cache
SentimentKeyLength ==
  100

\* the number of alphabetic tokens a negation reaches
NegationScope ==
  3

\* the locals of analyzeTokens before the first token
ScanStart ==
  [totalScore |-> Zero, positiveScore |-> Zero, negativeScore |-> Zero,
   wordCount |-> 0, sentimentWordCount |-> 0, currentIntensifier |-> One,
   negationActive |-> FALSE, negationScope |-> 0]

\* INTENSIFIERS[lemma] or DIMINISHERS[lemma] as a factor: an inherited function
\* multiplies to NaN
Multiplier(obj, lemma) ==
  IF lemma \in DOMAIN obj THEN obj[lemma] ELSE NaN

\* entry.score * entry.intensity * currentIntensifier for the entry of the
\* lemma; the properties of an inherited function are undefined and multiply
\* to NaN
EntryScore(lexicon, lemma, currentIntensifier) ==
  IF lemma \in DOMAIN lexicon
  THEN Mul(Mul(Num(lexicon[lemma].score, 1), lexicon[lemma].intensity),
           currentIntensifier)
  ELSE NaN

BaseScore(lemma, currentIntensifier) ==
  EntryScore(SENTIMENT_LEXICON, lemma, currentIntensifier)

\* the scoring without the negation step
applyNegation_skipped(score, negationActive, negationScope) ==
  score

\* score *= -0.5 when a negation is active
applyNegation(score, negationActive, negationScope) ==
  IF negationActive /\ negationScope > 0 THEN Mul(score, Num(-1, 2)) ELSE score

\* is the token the one whose lexicon entry is scored: it is no negation, no
\* intensifier, no diminisher, and the lexicon has its lemma
IsScored(token) ==
  LET lemma == ToLowerCase(token.lemma)
  IN /\ lemma \notin NEGATIONS /\ ToLowerCase(token.text) \notin NEGATIONS
     /\ ~Truthy(INTENSIFIERS, lemma)
     /\ ~Truthy(DIMINISHERS, lemma)
     /\ Truthy(SENTIMENT_LEXICON, lemma)

\* the locals after the score of a lexicon word is added
Scored(st, score) ==
  [st EXCEPT
     !.totalScore = Add(@, score),
     !.positiveScore = IF Less(Zero, score) THEN Add(@, score) ELSE @,
     !.negativeScore = IF Less(Zero, score) THEN @ ELSE Add(@, AbsNum(score)),
     !.sentimentWordCount = @ + 1,
     !.currentIntensifier = One]

\* the word count of the loop: alphabetic tokens that are no stop words
Counted(st, token) ==
  IF token.isAlpha /\ ~token.isStopWord THEN [st EXCEPT !.wordCount = @ + 1] ELSE st

\* the end of an iteration: an alphabetic token uses up one step of the
\* negation scope
Decayed(st, token) ==
  IF st.negationActive /\ token.isAlpha
  THEN [st EXCEPT !.negationScope = @ - 1,
                  !.negationActive = st.negationScope - 1 > 0]
  ELSE st

\* one iteration of the loop of analyzeTokens
ScanToken(st, token) ==
  LET lemma == ToLowerCase(token.lemma)
  IN IF lemma \in NEGATIONS \/ ToLowerCase(token.text) \in NEGATIONS
     THEN [st EXCEPT !.negationActive = TRUE, !.negationScope = NegationScope]
     ELSE IF Truthy(INTENSIFIERS, lemma)
     THEN [st EXCEPT !.currentIntensifier = Multiplier(INTENSIFIERS, lemma)]
     ELSE IF Truthy(DIMINISHERS, lemma)
     THEN [st EXCEPT !.currentIntensifier = Multiplier(DIMINISHERS, lemma)]
     ELSE Decayed(
            Counted(IF ~IsScored(token) THEN st
                    ELSE Scored(st, applyNegation(BaseScore(lemma, st.currentIntensifier),
                                                  st.negationActive, st.negationScope)),
                    token),
            token)

RECURSIVE ScanAfter(_, _)
\* the locals of analyzeTokens after the first k tokens
ScanAfter(tokens, k) ==
  IF k = 0 THEN ScanStart ELSE ScanToken(ScanAfter(tokens, k - 1), tokens[k])

\* the normalization at the end of analyzeTokens
Normalize(st) ==
  LET normalizer == IF st.sentimentWordCount > 1 THEN st.sentimentWordCount ELSE 1
      maxPossibleScore == Num(normalizer * 5, 1)
      normalizedTotal == Div(st.totalScore, maxPossibleScore)
      normalizedPositive == Div(st.positiveScore, maxPossibleScore)
      normalizedNegative == Div(st.negativeScore, maxPossibleScore)
      neutral == Max(Zero, Sub(One, Add(normalizedPositive, normalizedNegative)))
      confidence == Min(Num(st.sentimentWordCount,
                            IF st.wordCount > 1 THEN st.wordCount ELSE 1), One)
  IN [overall |-> Max(Num(-1, 1), Min(One, normalizedTotal)),
      positive |-> Min(One, normalizedPositive),
      negative |-> Min(One, normalizedNegative),
      neutral |-> Min(One, neutral),
      confidence |-> confidence]

\* analyzeTokens(tokens) for tokens whose lemmas are all strings
analyzeTokens(tokens) ==
  Normalize(ScanAfter(tokens, Len(tokens)))

(* ---------------------------------------------------------------------- *)
(* Keyword extractor: configuration and word lists                         *)
(* ---------------------------------------------------------------------- *)

DEFAULT_CONFIG ==
  [maxKeywords |-> 30,
   maxKeyphrases |-> 20,
   minWordLength |-> 3,
   minPhraseLength |-> 2,
   maxPhraseLength |-> 5,
   includeNGrams |-> TRUE,
   useTFIDF |-> TRUE,
   useTextRank |-> TRUE,
   useRake |-> TRUE]

\* the keyword extractor's own STOP_WORDS, which RAKE splits phrases on
KEYWORD_STOP_WORDS ==
  {
    "a", "about", "above", "after", "again", "against", "all", "am", "an", "and", "any", "are",
    "aren't", "as", "at", "be", "because", "been", "before", "being", "below", "between",
    "both", "but", "by", "can't", "cannot", "could", "couldn't", "did", "didn't", "do", "does",
    "doesn't", "doing", "don't", "down", "during", "each", "few", "for", "from", "further",
    "had", "hadn't", "has", "hasn't", "have", "haven't", "having", "he", "he'd", "he'll",
    "he's", "her", "here", "here's", "hers", "herself", "him", "himself", "his", "how",
    "how's", "i", "i'd", "i'll", "i'm", "i've", "if", "in", "into", "is", "isn't", "it",
    "it's", "its", "itself", "let's", "me", "more", "most", "mustn't", "my", "myself", "no",
    "nor", "not", "of", "off", "on", "once", "only", "or", "other", "ought", "our", "ours",
    "ourselves", "out", "over", "own", "same", "shan't", "she", "she'd", "she'll", "she's",
    "should", "shouldn't", "so", "some", "such", "than", "that", "that's", "the", "their",
    "theirs", "them", "themselves", "then", "there", "there's", "these", "they", "they'd",
    "they'll", "they're", "they've", "this", "those", "through", "to", "too", "under", "until",
    "up", "very", "was", "wasn't", "we", "we'd", "we'll", "we're", "we've", "were", "weren't",
    "what", "what's", "when", "when's", "where", "where's", "which", "while", "who", "who's",
    "whom", "why", "why's", "with", "won't", "would", "wouldn't", "you", "you'd", "you'll",
    "you're", "you've", "your", "yours", "yourself", "yourselves", "also", "just", "like",
    "will", "can", "may", "might", "shall", "get", "got", "getting", "go", "going", "went",
    "gone", "come", "came", "coming", "make", "made", "making", "take", "took", "taken",
    "taking", "see", "saw", "seen", "seeing", "know", "knew", "known", "knowing", "think",
    "thought", "thinking", "want", "wanted", "wanting", "use", "used", "using", "find",
    "found", "finding", "give", "gave", "given", "giving", "tell", "told", "telling", "ask",
    "asked", "asking", "work", "worked", "working", "seem", "seemed", "seeming", "feel",
    "felt", "feeling", "try", "tried", "trying", "leave", "left", "leaving", "call", "called",
    "calling", "keep", "kept", "keeping", "let", "letting", "begin", "began", "begun",
    "beginning", "show", "showed", "shown", "showing", "hear", "heard", "hearing", "play",
    "played", "playing", "run", "ran", "running", "move", "moved", "moving", "live", "lived",
    "living", "believe", "believed", "believing", "hold", "held", "holding", "bring",
    "brought", "bringing", "happen", "happened", "happening", "write", "wrote", "written",
    "writing", "provide", "provided", "providing", "sit", "sat", "sitting", "stand", "stood",
    "standing", "lose", "lost", "losing", "pay", "paid", "paying", "meet", "met", "meeting",
    "include", "included", "including", "continue", "continued", "continuing", "set",
    "setting", "learn", "learned", "learning", "change", "changed", "changing", "lead", "led",
    "leading", "understand", "understood", "understanding", "watch", "watched", "watching",
    "follow", "followed", "following", "stop", "stopped", "stopping", "create", "created",
    "creating", "speak", "spoke", "spoken", "speaking", "read", "reading", "allow", "allowed",
    "allowing", "add", "added", "adding", "spend", "spent", "spending", "grow", "grew",
    "grown", "growing", "open", "opened", "opening", "walk", "walked", "walking", "win", "won",
    "winning", "offer", "offered", "offering", "remember", "remembered", "remembering", "love",
    "loved", "loving", "consider", "considered", "considering", "appear", "appeared",
    "appearing", "buy", "bought", "buying", "wait", "waited", "waiting", "serve", "served",
    "serving", "die", "died", "dying", "send", "sent", "sending", "expect", "expected",
    "expecting", "build", "built", "building", "stay", "stayed", "staying", "fall", "fell",
    "fallen", "falling", "cut", "cutting", "reach", "reached", "reaching", "kill", "killed",
    "killing", "remain", "remained", "remaining", "suggest", "suggested", "suggesting",
    "raise", "raised", "raising", "pass", "passed", "passing", "sell", "sold", "selling",
    "require", "required", "requiring", "report", "reported", "reporting", "decide", "decided",
    "deciding", "pull", "pulled", "pulling"
  }

PHRASE_DELIMITERS ==
  {
    ".", ",", "!", "?", ";", ":", "(", ")", "[", "]", "{", "}", "\"", "'", "/", "\\", "|", "<",
    ">", "@", "#", "$", "%", "^", "&", "*", "+", "=", "~", "\n", "\r", "\t"
  }

(* ---------------------------------------------------------------------- *)
(* Keyword scores: decimal fixed point with four fractional digits         *)
(* ---------------------------------------------------------------------- *)

\* The scores of the keyword extractor are IEEE doubles in the source. Here a
\* score is the integer number of ten-thousandths, and every product and
\* quotient is rounded down to a ten-thousandth.

\* the fraction n/d
Fx(n, d) ==
  (n * 10000) \div d

FxMul(a, b) ==
  (a * b) \div 10000

FxDiv(a, b) ==
  (a * 10000) \div b

\* Math.log of the integers 1, 2, ..., rounded to a ten-thousandth
LnTable ==
  <<
    0, 6931, 10986, 13863, 16094, 17918, 19459, 20794, 21972, 23026, 23979, 24849, 25649,
    26391, 27081, 27726, 28332, 28904, 29444, 29957, 30445, 30910, 31355, 31781, 32189,
    32581, 32958, 33322, 33673, 34012, 34340, 34657, 34965, 35264, 35553, 35835, 36109,
    36376, 36636, 36889
  >>

\* Math.log(n) for an integer n >= 1
Ln(n) ==
  LnTable[n]

\* the sequence that a function on 1..n is, with each element computed once
Tuple(f) ==
  f \o <<>>

\* Math.max(...xs, floor) over a sequence of numbers
MaxOf(xs, floor) ==
  IF \E i \in DOMAIN xs : xs[i] > floor
  THEN xs[CHOOSE i \in DOMAIN xs : \A j \in DOMAIN xs : xs[j] <= xs[i]]
  ELSE floor

\* the elements of a sequence in order of first occurrence: the keys of a Map
\* that was set with each element in turn
Keys(seq) ==
  LET xs == Tuple(seq)
      firsts == {i \in DOMAIN xs : \A j \in 1..(i - 1) : xs[j] # xs[i]}
      order == SortedSeq(firsts)
  IN Tuple([k \in DOMAIN order |-> xs[order[k]]])

\* how many elements of the sequence equal x
Count(seq, x) ==
  Cardinality({i \in DOMAIN seq : seq[i] = x})

\* Array.prototype.sort with a comparator (a, b) => key(b) - key(a): a stable
\* sort by descending key
SortDescending(items, key(_)) ==
  LET xs == Tuple(items)
      keys == Tuple([k \in DOMAIN xs |-> key(xs[k])])
      rank(k) == Cardinality({j \in DOMAIN xs :
                   \/ keys[j] > keys[k]
                   \/ keys[j] = keys[k] /\ j < k})
  IN Tuple([r \in DOMAIN xs |-> xs[CHOOSE k \in DOMAIN xs : rank(k) = r - 1]])

SortByScore(items) ==
  SortDescending(items, LAMBDA x : x.score)

\* Array.prototype.join
Join(ss, sep) ==
  Concat([k \in 1..(2 * Len(ss) - 1) |-> IF k % 2 = 1 THEN ss[(k + 1) \div 2] ELSE sep])

\* Array.prototype.slice(0, n)
Slice(seq, n) ==
  SubSeq(seq, 1, IF n < Len(seq) THEN n ELSE Len(seq))

\* s.split(c) for a one-character separator c
SplitChar(s, c) ==
  LET cuts == <<0>> \o SortedSeq({i \in 1..Len(s) : SubSeq(s, i, i) = c}) \o <<Len(s) + 1>>
  IN [k \in 1..(Len(cuts) - 1) |-> SubSeq(s, cuts[k] + 1, cuts[k + 1] - 1)]

\* the maximal runs of consecutive places of 1..n that are not breaks, as pairs
\* <<first, last>>
Runs(n, break(_)) ==
  LET starts == SortedSeq({i \in 1..n : ~break(i) /\ (i = 1 \/ break(i - 1))})
  IN [k \in DOMAIN starts |->
        <<starts[k], First(starts[k], n, LAMBDA j : j = n \/ break(j + 1), n)>>]

\* s.split(/[...]+/) for a character class: the pieces between the maximal runs
\* of separator characters, with an empty piece where the string starts or ends
\* with a separator
SplitOnRuns(s, class) ==
  LET sep(i) == SubSeq(s, i, i) \in class
      runs == Runs(Len(s), sep)
      pieces == [k \in DOMAIN runs |-> SubSeq(s, runs[k][1], runs[k][2])]
  IN IF s = "" THEN <<"">>
     ELSE (IF sep(1) THEN <<"">> ELSE <<>>) \o pieces
          \o (IF sep(Len(s)) THEN <<"">> ELSE <<>>)

RECURSIVE KeepChars(_, _)
\* the string without the characters outside the class, by halves
KeepChars(s, class) ==
  IF Len(s) = 0 THEN ""
  ELSE IF Len(s) = 1 THEN (IF s \in class THEN s ELSE "")
  ELSE KeepChars(SubSeq(s, 1, Len(s) \div 2), class)
       \o KeepChars(SubSeq(s, Len(s) \div 2 + 1, Len(s)), class)

(* ---------------------------------------------------------------------- *)
(* TextRank                                                                *)
(* ---------------------------------------------------------------------- *)

dampingFactor ==
  Fx(85, 100)

convergenceThreshold ==
  Fx(1, 10000)

maxIterations ==
  100

\* the graph after addEdge(word1, word2) for each pair of the sequence in turn:
\* the nodes in the order they were added, the weight of each edge, and the
\* total weight of the edges of each node
TextRankGraph(pairs) ==
  LET edges == SelectSeq(pairs, LAMBDA p : p[1] # p[2])
      nodes == Keys(Flatten(edges))
      words == Range(nodes)
      weight == [a \in words |-> [b \in words |->
                   Cardinality({k \in DOMAIN edges :
                                  edges[k] = <<a, b>> \/ edges[k] = <<b, a>>})]]
  IN [nodes |-> nodes,
      weight |-> weight,
      total |-> [a \in words |-> Sum([k \in DOMAIN nodes |-> weight[a][nodes[k]]])]]

RECURSIVE TextRankSweep(_, _, _, _)
\* one pass of calculate over the nodes from the k-th on; a node's new score is
\* computed from the scores as they stand, those of the nodes before it in this
\* pass included
TextRankSweep(graph, k, scores, maxDiff) ==
  IF k > Len(graph.nodes) THEN [scores |-> scores, maxDiff |-> maxDiff]
  ELSE LET word == graph.nodes[k]
           share(neighbor) ==
             IF graph.weight[word][neighbor] > 0 /\ graph.total[neighbor] > 0
             THEN FxMul(FxMul(dampingFactor,
                              Fx(graph.weight[word][neighbor], graph.total[neighbor])),
                        scores[neighbor])
             ELSE 0
           diff(newScore) == Abs(newScore - scores[word])
           larger(d) == IF d > maxDiff THEN d ELSE maxDiff
       IN Let(Fx(1, 1) - dampingFactor
                + Sum([j \in DOMAIN graph.nodes |-> share(graph.nodes[j])]),
              LAMBDA newScore :
                Let([scores EXCEPT ![word] = newScore],
                    LAMBDA newScores :
                      Let(larger(diff(newScore)),
                          LAMBDA newMax : TextRankSweep(graph, k + 1, newScores, newMax))))

RECURSIVE TextRankIterate(_, _, _)
\* the passes of calculate from the given one on, until the largest change of a
\* pass is below the threshold or maxIterations passes were made
TextRankIterate(graph, iteration, scores) ==
  IF iteration >= maxIterations THEN scores
  ELSE LET pass == TextRankSweep(graph, 1, scores, 0)
       IN IF pass.maxDiff < convergenceThreshold THEN pass.scores
          ELSE TextRankIterate(graph, iteration + 1, pass.scores)

\* TextRankGraph.calculate: the score of each node
calculate(graph) ==
  TextRankIterate(graph, 0, [w \in Range(graph.nodes) |-> Fx(1, 1)])

\* the lower-cased lemma of a token
LemmaOf(t) ==
  ToLowerCase(t.lemma)

\* the pairs of words that extractTextRank hands to addEdge: each content token
\* with the next two
WindowPairs(contentTokens) ==
  LET n == Len(contentTokens)
      last(i) == IF i + 2 < n THEN i + 2 ELSE n
  IN Flatten([i \in 1..n |->
       [d \in 1..(last(i) - i) |->
          <<LemmaOf(contentTokens[i]), LemmaOf(contentTokens[i + d])>>]])

\* the keywords of the graph: one per node, with its score and the number of
\* content tokens of that lemma, by descending score
TextRankResults(contentTokens, graph, scores) ==
  SortByScore([k \in DOMAIN graph.nodes |->
                 [keyword |-> graph.nodes[k],
                  score |-> scores[graph.nodes[k]],
                  frequency |-> Len(SelectSeq(contentTokens,
                                  LAMBDA t : LemmaOf(t) = graph.nodes[k])),
                  method |-> "textrank"]])

\* the graph is scored once it is built
RankedGraph(contentTokens, graph) ==
  TextRankResults(contentTokens, graph, calculate(graph))

extractTextRank(tokens, config) ==
  LET contentTokens == SelectSeq(tokens, LAMBDA t :
                         t.isAlpha /\ ~t.isStopWord /\ Len(t.text) >= config.minWordLength)
  IN RankedGraph(contentTokens, TextRankGraph(WindowPairs(contentTokens)))
(* ---------------------------------------------------------------------- *)
(* TF-IDF, n-grams and the merge of the keyword lists                      *)
(* ---------------------------------------------------------------------- *)

\* the IDF of each term from the documents of a corpus, given as the tokens of
\* each document: log((N + 1) / (df + 1)) + 1, the logarithm of the quotient
\* taken as the difference of the logarithms
calculateIDFFromCorpus(corpusTokens, terms) ==
  LET lemmas(doc) == {LemmaOf(doc[k]) : k \in {j \in DOMAIN doc : doc[j].isAlpha}}
      docFreq(term) == Cardinality({d \in DOMAIN corpusTokens : term \in lemmas(corpusTokens[d])})
      N == Len(corpusTokens)
  IN [term \in Range(terms) |-> Ln(N + 1) - Ln(docFreq(term) + 1) + Fx(1, 1)]

\* the IDF of each term from the places of the term in the document itself
calculatePseudoIDF(tokens, terms) ==
  LET positions(term) == SelectSeq([k \in DOMAIN tokens |-> k - 1],
                                   LAMBDA index : LemmaOf(tokens[index + 1]) = term)
      positionScore(term) ==
        Sum([k \in DOMAIN positions(term) |-> FxDiv(Fx(1, 1), Ln(positions(term)[k] + 2))])
      frequencyPenalty(term) == FxDiv(Fx(1, 1), Ln(Len(positions(term)) + 2))
  IN [term \in Range(terms) |->
        FxMul(positionScore(term), frequencyPenalty(term)) + Fx(1, 1)]

\* the TF-IDF record of each term, by descending tfidf: the term frequency is
\* relative to that of the most frequent term, and an IDF of 0 counts as 1
TermScores(words, terms, idf) ==
  LET freq(term) == Count(words, term)
      maxTF == MaxOf([k \in DOMAIN terms |-> freq(terms[k])], 1)
      idfScore(term) == IF idf[term] = 0 THEN Fx(1, 1) ELSE idf[term]
  IN SortDescending([k \in DOMAIN terms |->
                       [term |-> terms[k],
                        tf |-> Fx(freq(terms[k]), maxTF),
                        idf |-> idfScore(terms[k]),
                        tfidf |-> FxMul(Fx(freq(terms[k]), maxTF), idfScore(terms[k]))]],
                    LAMBDA r : r.tfidf)

\* the IDF comes from the corpus when there is one, else from the document
DocumentTerms(tokens, corpusTokens, words, terms) ==
  TermScores(words, terms,
             IF Len(corpusTokens) > 0 THEN calculateIDFFromCorpus(corpusTokens, terms)
             ELSE calculatePseudoIDF(tokens, terms))

\* calculateForDocument, given the tokens the tokenizer returned for the text and
\* for each document of the corpus
calculateForDocument(tokens, corpusTokens) ==
  LET kept == SelectSeq(tokens, LAMBDA t : t.isAlpha /\ ~t.isStopWord /\ Len(t.text) >= 3)
      words == [k \in DOMAIN kept |-> LemmaOf(kept[k])]
  IN DocumentTerms(tokens, corpusTokens, words, Keys(words))

\* Math.round of a non-negative number
Round(x) ==
  (x + Fx(1, 2)) \div Fx(1, 1)

\* the keyword extractTFIDF makes of each TF-IDF record
TfidfKeywords(results) ==
  [k \in DOMAIN results |->
     [keyword |-> results[k].term,
      score |-> results[k].tfidf,
      frequency |-> Round(results[k].tf * 10),
      method |-> "tfidf"]]

extractTFIDF(tokens, corpusTokens) ==
  TfidfKeywords(calculateForDocument(tokens, corpusTokens))

\* the n-grams of the content tokens that extractNGrams counts, in the order it
\* meets them
CountedNGrams(contentTokens, n) ==
  LET last == IF Len(contentTokens) >= n THEN Len(contentTokens) - n + 1 ELSE 0
      starts == SelectSeq([i \in 1..last |-> i], LAMBDA i :
                  LET ngram == SubSeq(contentTokens, i, i + n - 1)
                  IN /\ Len(SelectSeq(ngram, LAMBDA t : t.isStopWord)) <= 1
                     /\ ~ngram[1].isStopWord
                     /\ ~ngram[n].isStopWord)
  IN [k \in DOMAIN starts |->
        Join([j \in 1..n |-> LemmaOf(contentTokens[starts[k] + j - 1])], " ")]

\* the keyword of each n-gram met at least twice, by descending score: the
\* count weighted by the number of words
NGramKeywords(counted, ngrams) ==
  SortByScore([k \in DOMAIN ngrams |->
                 [keyword |-> ngrams[k],
                  score |-> Fx(Count(counted, ngrams[k]) * Len(SplitChar(ngrams[k], " ")), 1),
                  frequency |-> Count(counted, ngrams[k]),
                  method |-> "ngram"]])

\* the n-grams met at least twice, in the order they were first met
RepeatedNGrams(counted) ==
  NGramKeywords(counted, SelectSeq(Keys(counted), LAMBDA g : Count(counted, g) >= 2))

extractNGrams(tokens) ==
  LET contentTokens == SelectSeq(tokens, LAMBDA t : t.isAlpha /\ Len(t.text) >= 2)
  IN RepeatedNGrams(CountedNGrams(contentTokens, 2) \o CountedNGrams(contentTokens, 3))

\* the entries of combinedScores after every keyword list has been folded in, in
\* the order their keywords were first met, with the boost for the number of
\* methods applied
MergedKeywords(keywordSets) ==
  LET normalizedSet(keywords) ==
        LET maxScore == MaxOf([k \in DOMAIN keywords |-> keywords[k].score], Fx(1, 1000))
        IN [k \in DOMAIN keywords |->
              [keywords[k] EXCEPT !.score = FxDiv(keywords[k].score, maxScore)]]
      all == Flatten([s \in DOMAIN keywordSets |-> normalizedSet(keywordSets[s])])
      keys == Keys([k \in DOMAIN all |-> all[k].keyword])
      of(keyword) == SelectSeq(all, LAMBDA x : x.keyword = keyword)
      methods(keyword) == Keys([k \in DOMAIN of(keyword) |-> of(keyword)[k].method])
      methodBoost(keyword) == Fx(1, 1) + (Len(methods(keyword)) - 1) * Fx(3, 10)
  IN [k \in DOMAIN keys |->
        [keyword |-> keys[k],
         score |-> FxMul(Sum([j \in DOMAIN of(keys[k]) |-> of(keys[k])[j].score]),
                         methodBoost(keys[k])),
         frequency |-> MaxOf([j \in DOMAIN of(keys[k]) |-> of(keys[k])[j].frequency],
                             of(keys[k])[1].frequency),
         method |-> Join(methods(keys[k]), "+")]]

\* the merge without its closing sort
combineKeywords_unsorted(keywordSets) ==
  MergedKeywords(keywordSets)

combineKeywords(keywordSets) ==
  SortByScore(MergedKeywords(keywordSets))

(* ---------------------------------------------------------------------- *)
(* RAKE and the keyphrases                                                 *)
(* ---------------------------------------------------------------------- *)

\* w.toLowerCase().replace(/[^a-z0-9]/g, '')
CleanWord(word) ==
  KeepChars(ToLowerCase(word), CharsOf(LowerLetters) \cup Digits)

\* the words of each run joined by spaces; empty phrases are dropped
JoinedRuns(words, runs) ==
  SelectSeq([k \in DOMAIN runs |-> Trim(Join(SubSeq(words, runs[k][1], runs[k][2]), " "))],
            LAMBDA p : p # "")

\* the runs of words between stop words and delimiters
PhrasesOf(words) ==
  LET break(i) == \/ CleanWord(words[i]) \in KEYWORD_STOP_WORDS
                  \/ words[i] \in PHRASE_DELIMITERS
  IN JoinedRuns(words, Runs(Len(words), break))

\* the phrases of a sentence: the words between stop words and delimiters
splitOnStopWords(text) ==
  PhrasesOf(SplitOnRuns(text, SpaceChars))

\* the cleaned words of a phrase that have at least two characters
CleanedWords(split) ==
  SelectSeq([k \in DOMAIN split |-> CleanWord(split[k])], LAMBDA w : Len(w) >= 2)

\* the candidate of the words of a phrase, <<>> when there is no word or too many
CandidateOf(words) ==
  IF Len(words) > 0 /\ Len(words) <= 5
  THEN <<[phrase |-> Join(words, " "), words |-> words]>>
  ELSE <<>>

\* the candidate of a phrase, <<>> when the phrase has no word or too many
RakeCandidate(phrase) ==
  CandidateOf(CleanedWords(SplitOnRuns(phrase, SpaceChars)))

\* the phrases of all sentences, in order
SentencePhrases(sentences) ==
  Flatten([k \in DOMAIN sentences |-> splitOnStopWords(sentences[k])])

\* the candidates of all phrases, in order
PhraseCandidates(phrases) ==
  Flatten([k \in DOMAIN phrases |-> RakeCandidate(phrases[k])])

extractCandidates(text) ==
  PhraseCandidates(SentencePhrases(SplitOnRuns(text, {".", "!", "?"})))

\* calculateWordScores and scorePhrases: each candidate scored by the sum over
\* its words of degree / frequency
ScoredCandidates(candidates) ==
  LET wordFreq(word) == Sum([k \in DOMAIN candidates |-> Count(candidates[k].words, word)])
      wordDegree(word) ==
        Sum([k \in DOMAIN candidates |->
               Count(candidates[k].words, word) * Len(candidates[k].words)])
      wordScore(word) == Fx(wordDegree(word), wordFreq(word))
  IN [k \in DOMAIN candidates |->
        [phrase |-> candidates[k].phrase,
         words |-> candidates[k].words,
         score |-> Sum([j \in DOMAIN candidates[k].words |->
                          wordScore(candidates[k].words[j])])]]

\* RakeExtractor.extract: the best maxPhrases candidates by descending score
RakeExtract(text, maxPhrases) ==
  Slice(SortByScore(ScoredCandidates(extractCandidates(text))), maxPhrases)

\* the keyword extractRake makes of each RAKE candidate
RakeKeywords(candidates) ==
  [k \in DOMAIN candidates |->
     [keyword |-> candidates[k].phrase,
      score |-> candidates[k].score,
      frequency |-> 1,
      method |-> "rake"]]

extractRake(text, config) ==
  RakeKeywords(RakeExtract(text, config.maxKeyphrases * 2))

RECURSIVE OccurrencesFrom(_, _, _)
\* the matches of the phrase in the text from an offset on, each match starting
\* where the one before ended
OccurrencesFrom(text, phrase, from) ==
  LET at == IndexOfFrom(text, phrase, from)
  IN IF at < 0 THEN 0 ELSE 1 + OccurrencesFrom(text, phrase, at + Len(phrase))

\* the matches of the phrase in the text, letter case ignored
countOccurrences(text, phrase) ==
  OccurrencesFrom(ToLowerCase(text), ToLowerCase(phrase), 0)

\* the keyphrases before the closing sort: the RAKE phrases of several words,
\* then the merged keywords of several words, each phrase once
CollectedKeyphrases(text, rakeKeywords, combinedKeywords) ==
  LET all == SelectSeq(rakeKeywords \o combinedKeywords,
                       LAMBDA kw : \E i \in 1..Len(kw.keyword) : SubSeq(kw.keyword, i, i) = " ")
      unseen == SelectSeq([k \in DOMAIN all |-> k],
                          LAMBDA k : \A j \in 1..(k - 1) : all[j].keyword # all[k].keyword)
  IN [k \in DOMAIN unseen |->
        [phrase |-> all[unseen[k]].keyword,
         score |-> all[unseen[k]].score,
         frequency |-> countOccurrences(text, all[unseen[k]].keyword),
         words |-> SplitChar(all[unseen[k]].keyword, " ")]]

extractKeyphrases(text, rakeKeywords, combinedKeywords) ==
  SortByScore(CollectedKeyphrases(text, rakeKeywords, combinedKeywords))

(* ---------------------------------------------------------------------- *)
(* Topic clustering                                                        *)
(* ---------------------------------------------------------------------- *)

\* the capacity of the keyword extractor's cache
KeywordMaxCacheSize ==
  200

\* the length of the text prefix that keys the keyword extractor's cache
KeywordKeyLength ==
  100

\* the number of merged keywords handed to the topic clustering
TopicCandidates ==
  30

windowSize ==
  5

kMeansMaxIterations ==
  50

\* the vector of each keyword: how often each keyword stands within the window
\* around an occurrence of it
createWordVectors(tokens, keywords) ==
  LET keywordList == Tuple([k \in DOMAIN keywords |-> ToLowerCase(keywords[k])])
      lemmas == Tuple([i \in DOMAIN tokens |-> LemmaOf(tokens[i])])
      near == {p \in (DOMAIN tokens) \X (DOMAIN tokens) :
                 /\ p[1] # p[2]
                 /\ p[2] >= p[1] - windowSize /\ p[2] <= p[1] + windowSize
                 /\ lemmas[p[1]] \in Range(keywordList)
                 /\ lemmas[p[2]] \in Range(keywordList)}
      cooccur(word1, word2) ==
        Cardinality({p \in near : lemmas[p[1]] = word1 /\ lemmas[p[2]] = word2})
  IN Tuple([k \in DOMAIN keywordList |->
        [word |-> keywordList[k],
         vector |-> Tuple([d \in DOMAIN keywordList |->
                             Num(cooccur(keywordList[k], keywordList[d]), 1)])]])

RECURSIVE SumNum(_)
\* the sum of a sequence of fractions
SumNum(xs) ==
  IF xs = <<>> THEN Zero
  ELSE Let(SumNum(Tail(xs)), LAMBDA rest : Add(Head(xs), rest))

\* the square of euclideanDistance; the nearest centroid is the same under the
\* distance and under its square
SquaredDistance(a, b) ==
  Let([i \in DOMAIN a |-> Let(Sub(a[i], b[i]), LAMBDA diff : Mul(diff, diff))],
      LAMBDA squares : SumNum(squares))

\* the index of the centroid nearest to the vector, the first of them on a tie
Nearest(vector, centroids) ==
  Let(Tuple([c \in DOMAIN centroids |-> SquaredDistance(vector, centroids[c])]),
      LAMBDA dist :
        CHOOSE c \in DOMAIN centroids :
          /\ \A e \in DOMAIN centroids : LessEq(dist[c], dist[e])
          /\ \A e \in 1..(c - 1) : Less(dist[c], dist[e]))

\* the vectors assigned to each centroid
MembersOf(vectors, centroids, nearest) ==
  Tuple([c \in DOMAIN centroids |-> {v \in DOMAIN vectors : nearest[v] = c}])

\* coordinate d of the mean of the member vectors
Mean(vectors, members, d) ==
  Let(SortedSeq(members),
      LAMBDA sorted :
        Let([m \in DOMAIN sorted |-> vectors[sorted[m]].vector[d]],
            LAMBDA coordinates : Div(SumNum(coordinates), Num(Len(sorted), 1))))

\* the centroids after a pass: the mean of its vectors, or the old centroid
\* when it has none
NewCentroids(vectors, centroids, members) ==
  Tuple([c \in DOMAIN centroids |->
           IF members[c] = {} THEN centroids[c]
           ELSE Tuple([d \in DOMAIN centroids[c] |-> Mean(vectors, members[c], d)])])

\* no coordinate of a centroid moved by more than 0.001
Converged(centroids, newCentroids) ==
  \A c \in DOMAIN centroids : \A d \in DOMAIN centroids[c] :
    LessEq(AbsNum(Sub(newCentroids[c][d], centroids[c][d])), Num(1, 1000))

RECURSIVE kMeansIterate(_, _, _)
\* the end of a pass: the loop stops when the centroids converged or after
\* kMeansMaxIterations passes
kMeansStep(vectors, centroids, iter, nearest, newCentroids) ==
  IF Converged(centroids, newCentroids) \/ iter + 1 >= kMeansMaxIterations THEN nearest
  ELSE kMeansIterate(vectors, newCentroids, iter + 1)

\* the update of the centroids from the assignment of a pass
kMeansUpdate(vectors, centroids, iter, nearest) ==
  kMeansStep(vectors, centroids, iter, nearest,
             NewCentroids(vectors, centroids, MembersOf(vectors, centroids, nearest)))

\* the passes of the k-means loop from the given one on: the nearest centroid of
\* each vector after the last pass made
kMeansIterate(vectors, centroids, iter) ==
  kMeansUpdate(vectors, centroids, iter,
               Tuple([v \in DOMAIN vectors |-> Nearest(vectors[v].vector, centroids)]))

\* the clusters in the order their first vector was assigned, each with its
\* vectors in order
ClustersOf(vectors, nearest) ==
  LET order == Keys(nearest)
  IN Tuple([c \in DOMAIN order |->
        SelectSeq([v \in DOMAIN vectors |-> v], LAMBDA v : nearest[v] = order[c])])

\* kMeansClustering with the vectors at the drawn indices as first centroids
kMeansClustering(vectors, seeds) ==
  IF Len(vectors) = 0 THEN <<>>
  ELSE ClustersOf(vectors,
         kMeansIterate(vectors,
                       Tuple([c \in DOMAIN seeds |-> vectors[seeds[c] + 1].vector]), 0))

\* the draws of k distinct indices below n that the seeding loop can end with
Seedings(n, k) ==
  {s \in [1..k -> 0..(n - 1)] : \A i, j \in 1..k : i # j => s[i] # s[j]}

capitalize(str) ==
  IF str = "" THEN "" ELSE UpperChar(SubSeq(str, 1, 1)) \o SubSeq(str, 2, Len(str))

generateTopicName(keywords) ==
  IF Len(keywords) = 0 THEN "Unknown"
  ELSE IF Len(keywords) = 1 THEN capitalize(keywords[1])
  ELSE capitalize(keywords[1]) \o " & " \o capitalize(keywords[2])

calculateTopicRelevance(keywords, tokens) ==
  LET count == Cardinality({i \in DOMAIN tokens : LemmaOf(tokens[i]) \in Range(keywords)})
  IN Min(Num(count, IF Len(tokens) > 1 THEN Len(tokens) ELSE 1), One)

\* the decimal digits of a number below ten
DigitString(n) ==
  SubSeq("0123456789", n + 1, n + 1)

\* formatClusters: the topics sorted by descending relevance, stably
formatClusters(clusters, vectors, tokens) ==
  LET topic(c) ==
        Let(Tuple([m \in DOMAIN clusters[c] |-> vectors[clusters[c][m]].word]),
            LAMBDA keywords :
              [id |-> "cluster_" \o DigitString(c - 1),
               name |-> generateTopicName(keywords),
               keywords |-> keywords,
               relevance |-> calculateTopicRelevance(keywords, tokens),
               documentCount |-> 1])
      rank(topics, k) ==
        Cardinality({j \in DOMAIN topics :
                       \/ Less(topics[k].relevance, topics[j].relevance)
                       \/ topics[j].relevance = topics[k].relevance /\ j < k})
  IN Let(Tuple([c \in DOMAIN clusters |-> topic(c)]),
         LAMBDA topics :
           Tuple([r \in DOMAIN topics |->
                    topics[CHOOSE k \in DOMAIN topics : rank(topics, k) = r - 1]]))

\* the topics of the clusters of the word vectors
TopicsOf(wordVectors, tokens, seeds) ==
  formatClusters(kMeansClustering(wordVectors, seeds), wordVectors, tokens)

\* TopicClusterer.cluster, given the tokens the tokenizer returned for the text
\* and the indices the seeding drew
cluster(keywords, tokens, seeds) ==
  TopicsOf(createWordVectors(tokens, keywords), tokens, seeds)

\* a centroid for every vector
NumCentroids_perVector(n) ==
  n

\* numClusters centroids whatever the number of vectors
NumCentroids_five(n) ==
  5

\* the number of centroids of kMeansClustering for numClusters = 5
NumCentroids(n) ==
  IF n < 5 THEN n ELSE 5

calculateStatistics(tokens, sentenceCount, keywords) ==
  LET alpha == SelectSeq(tokens, LAMBDA t : t.isAlpha)
      totalWords == Len(alpha)
      uniqueWords == Cardinality({LemmaOf(alpha[k]) : k \in DOMAIN alpha})
      words == IF totalWords > 1 THEN totalWords ELSE 1
      keywordSet == {keywords[k].keyword : k \in 1..(IF Len(keywords) < 20 THEN Len(keywords) ELSE 20)}
      coveredTokens == Cardinality({i \in DOMAIN tokens : LemmaOf(tokens[i]) \in keywordSet})
  IN [totalWords |-> totalWords,
      uniqueWords |-> uniqueWords,
      vocabularyRichness |-> Num(uniqueWords, words),
      keywordDensity |-> Num(Len(keywords), words),
      keywordCoverage |-> Num(coveredTokens, words),
      sentenceCount |-> sentenceCount,
      avgWordsPerSentence |-> Num(totalWords, IF sentenceCount > 1 THEN sentenceCount ELSE 1),
      topKeywordScore |-> IF Len(keywords) > 0 THEN keywords[1].score ELSE 0]

(* ---------------------------------------------------------------------- *)
(* Sentiment analyzer: emotions                                            *)
(* ---------------------------------------------------------------------- *)

\* the values of the type EmotionCategory
EmotionCategory ==
  {"joy", "sadness", "anger", "fear", "surprise", "disgust", "trust", "anticipation",
   "love", "optimism", "pride", "admiration", "gratitude", "serenity", "amusement",
   "excitement"}

\* the keys the emotions object of analyzeEmotions starts with
ScoredEmotions ==
  <<"joy", "sadness", "anger", "fear", "surprise", "disgust", "trust", "anticipation">>

\* what the loop of analyzeEmotions records for a token: each emotion of its
\* lexicon entry with the intensity of the entry; an inherited function has no
\* emotions
TokenEmotions(token) ==
  LET lemma == ToLowerCase(token.lemma)
  IN IF lemma \in DOMAIN SENTIMENT_LEXICON
     THEN [i \in DOMAIN SENTIMENT_LEXICON[lemma].emotions |->
             [emotion |-> SENTIMENT_LEXICON[lemma].emotions[i],
              intensity |-> SENTIMENT_LEXICON[lemma].intensity]]
     ELSE <<>>

\* the records of all tokens, in the order of the loop
EmotionHits(tokens) ==
  Flatten([k \in DOMAIN tokens |-> TokenEmotions(tokens[k])])

\* the intensities pushed for an emotion
IntensitiesOf(hits, emotion) ==
  SelectSeq(hits, LAMBDA h : h.emotion = emotion)

\* Object.entries(emotionCounts).sort((a, b) => b[1] - a[1]): the emotions in
\* the order they were first counted, sorted by descending count
SortedEmotions(hits, names) ==
  SortDescending(names, LAMBDA e : Len(IntensitiesOf(hits, e)))

\* avgIntensity * (intensities.length / Math.max(keys, 1)) for a scored emotion
EmotionScore(intensities, keys) ==
  IF intensities = <<>> THEN Zero
  ELSE Mul(Div(SumNum([i \in DOMAIN intensities |-> intensities[i].intensity]),
               Num(Len(intensities), 1)),
           Num(Len(intensities), IF keys > 1 THEN keys ELSE 1))

\* the emotions object before it is normalized
EmotionScores(hits, names) ==
  [e \in Range(ScoredEmotions) |-> EmotionScore(IntensitiesOf(hits, e), Len(names))]

RECURSIVE MaxNum(_, _)
\* Math.max(...xs, floor) over a sequence of fractions
MaxNum(xs, floor) ==
  IF xs = <<>> THEN floor ELSE MaxNum(Tail(xs), Max(Head(xs), floor))

\* the emotions object divided by its greatest value, or by 0.01
NormalizedEmotions(scores, maxEmotion) ==
  [e \in Range(ScoredEmotions) |-> Div(scores[e], maxEmotion)]

\* the record analyzeEmotions returns; secondary may be undefined
EmotionAnalysis(tokens, hits, sortedEmotions, scores) ==
  [primary |-> IF Len(sortedEmotions) >= 1 THEN sortedEmotions[1] ELSE "neutral",
   secondary |-> IF Len(sortedEmotions) >= 2 THEN sortedEmotions[2] ELSE Undefined,
   emotions |-> NormalizedEmotions(scores,
                  MaxNum([k \in DOMAIN ScoredEmotions |-> scores[ScoredEmotions[k]]],
                         Num(1, 100))),
   intensity |-> Min(One,
                  Div(SumNum([i \in DOMAIN hits |-> hits[i].intensity]),
                      Num(IF Len(SelectSeq(tokens, LAMBDA t : t.isAlpha)) > 1
                          THEN Len(SelectSeq(tokens, LAMBDA t : t.isAlpha)) ELSE 1, 1))),
   confidence |-> Min(One, Num(Len(sortedEmotions), 5))]

\* the body of analyzeEmotions after the loop, given what the loop recorded
EmotionsOfHits(tokens, hits, names) ==
  EmotionAnalysis(tokens, hits, SortedEmotions(hits, names), EmotionScores(hits, names))

\* analyzeEmotions for tokens whose lemmas are all strings
EmotionsOfTokens(tokens, hits) ==
  EmotionsOfHits(tokens, hits, Keys([i \in DOMAIN hits |-> hits[i].emotion]))

\* analyzeEmotions given what the shared tokenizer returned: reading
\* lemma.toLowerCase() of a lemma that is no string raises a TypeError
EmotionsOf(tok) ==
  IF LemmaThrows(tok.result)
  THEN [result |-> <<>>, tcache |-> tok.cache, error |-> "TypeError"]
  ELSE [result |-> EmotionsOfTokens(tok.result, EmotionHits(tok.result)),
        tcache |-> tok.cache, error |-> ""]
(* ---------------------------------------------------------------------- *)
(* Named-entity recognizer: gazetteers and patterns                        *)
(* ---------------------------------------------------------------------- *)

NAME_PREFIXES ==
  {
    "mr", "mrs", "ms", "miss", "dr", "prof", "professor", "sir", "madam", "lord", "lady",
    "rev", "reverend", "fr", "father", "sister", "brother", "rabbi", "imam", "senator",
    "representative", "governor", "mayor", "president", "ceo", "cfo", "cto", "coo", "vp",
    "director", "manager"
  }

NAME_SUFFIXES ==
  {
    "jr", "sr", "ii", "iii", "iv", "v", "phd", "md", "esq", "jd", "dds", "cpa", "mba", "msc",
    "bsc", "ba", "ma"
  }

COMMON_FIRST_NAMES ==
  {
    "james", "john", "robert", "michael", "william", "david", "richard", "joseph", "thomas",
    "charles", "christopher", "daniel", "matthew", "anthony", "mark", "donald", "steven",
    "paul", "andrew", "joshua", "kenneth", "kevin", "brian", "mary", "patricia", "jennifer",
    "linda", "elizabeth", "barbara", "susan", "jessica", "sarah", "karen", "nancy", "lisa",
    "betty", "margaret", "sandra", "ashley", "dorothy", "kimberly", "emily", "donna",
    "michelle", "carol", "amanda", "melissa", "deborah", "stephanie", "rebecca", "sharon",
    "laura", "elon", "jeff", "tim", "sundar", "satya", "jensen", "sam", "alex"
  }

ORG_INDICATORS ==
  {
    "inc", "corp", "corporation", "company", "co", "llc", "ltd", "limited", "group",
    "holdings", "partners", "association", "foundation", "institute", "university", "college",
    "school", "academy", "hospital", "clinic", "bank", "trust", "fund", "capital", "ventures",
    "labs", "technologies", "tech", "software", "systems", "solutions", "services",
    "industries", "entertainment", "media", "studios", "productions", "records", "music",
    "games", "sports", "airlines", "airways", "motors", "automotive"
  }

KNOWN_ORGANIZATIONS ==
  {
    "google", "apple", "microsoft", "amazon", "facebook", "meta", "netflix", "twitter", "x",
    "tesla", "spacex", "nvidia", "intel", "amd", "ibm", "oracle", "salesforce", "adobe",
    "spotify", "uber", "lyft", "airbnb", "tiktok", "bytedance", "alibaba", "tencent", "baidu",
    "samsung", "sony", "nintendo", "disney", "warner", "paramount", "universal", "fox", "hbo",
    "cnn", "bbc", "nbc", "cbs", "abc", "espn", "nfl", "nba", "mlb", "fifa", "youtube",
    "instagram", "snapchat", "pinterest", "linkedin", "reddit", "twitch", "discord", "slack",
    "zoom", "github", "gitlab", "openai", "anthropic", "deepmind", "huggingface", "stability",
    "midjourney"
  }

LOCATION_INDICATORS ==
  {
    "city", "town", "village", "county", "state", "province", "region", "country", "nation",
    "island", "peninsula", "continent", "ocean", "sea", "river", "lake", "mountain", "valley",
    "desert", "forest", "park", "street", "avenue", "boulevard", "road", "highway", "bridge",
    "tunnel", "airport", "station", "terminal", "port", "harbor", "beach", "coast"
  }

KNOWN_LOCATIONS ==
  {
    "usa", "america", "canada", "mexico", "brazil", "argentina", "uk", "england", "france",
    "germany", "italy", "spain", "portugal", "russia", "china", "japan", "korea", "india",
    "australia", "africa", "europe", "asia", "california", "texas", "florida", "newyork",
    "chicago", "boston", "seattle", "denver", "atlanta", "miami", "dallas", "houston",
    "phoenix", "sanfrancisco", "losangeles", "sandiego", "lasvegas", "portland", "london",
    "paris", "berlin", "rome", "madrid", "amsterdam", "vienna", "tokyo", "beijing", "shanghai",
    "singapore", "hongkong", "dubai", "sydney", "melbourne", "toronto", "vancouver",
    "montreal", "hollywood", "silicon valley", "wall street", "broadway", "times square",
    "manhattan"
  }

PRODUCT_INDICATORS ==
  {
    "iphone", "ipad", "macbook", "airpods", "apple watch", "imac", "pixel", "android",
    "chrome", "chromebook", "nest", "windows", "xbox", "surface", "office", "azure", "teams",
    "alexa", "kindle", "echo", "aws", "prime", "model s", "model 3", "model x", "model y",
    "cybertruck", "playstation", "switch", "quest", "oculus", "chatgpt", "gpt", "claude",
    "gemini", "copilot", "midjourney", "photoshop", "illustrator", "premiere", "after effects"
  }

EVENT_PATTERNS ==
  <<
    Cat(<<WB, Words(<<"super bowl", "world cup", "olympics", "grammy", "oscar", "emmy", "tony">>), WB>>),
    Cat(<<WB, Words(<<"conference", "summit", "expo", "convention", "festival", "championship">>), WB>>),
    Cat(<<WB, Words(<<"election", "inauguration", "ceremony", "premiere", "launch">>), WB>>),
    Cat(<<WB, Words(<<"black friday", "cyber monday", "prime day", "christmas", "thanksgiving">>), WB>>)
  >>

DATE_PATTERNS ==
  <<
    Cat(<<WB, Cat(<<Rep(Set(Digits, FALSE), 1, 2), Set({"-", "/"}, FALSE), Rep(Set(Digits, FALSE), 1, 2), Set({"-", "/"}, FALSE), Rep(Set(Digits, FALSE), 2, 4)>>), WB>>),
    Cat(<<WB, Cat(<<Rep(Set(Digits, FALSE), 4, 4), Set({"-", "/"}, FALSE), Rep(Set(Digits, FALSE), 1, 2), Set({"-", "/"}, FALSE), Rep(Set(Digits, FALSE), 1, 2)>>), WB>>),
    Cat(<<WB, Words(<<"january", "february", "march", "april", "may", "june", "july", "august", "september", "october", "november", "december">>), Many(Set(SpaceChars, FALSE), 1), Rep(Set(Digits, FALSE), 1, 2), Rep(Words(<<"st", "nd", "rd", "th">>), 0, 1), Rep(Lit(","), 0, 1), Many(Set(SpaceChars, FALSE), 0), Rep(Set(Digits, FALSE), 0, 4), WB>>),
    Cat(<<WB, Rep(Set(Digits, FALSE), 1, 2), Rep(Words(<<"st", "nd", "rd", "th">>), 0, 1), Many(Set(SpaceChars, FALSE), 1), Words(<<"january", "february", "march", "april", "may", "june", "july", "august", "september", "october", "november", "december">>), Rep(Lit(","), 0, 1), Many(Set(SpaceChars, FALSE), 0), Rep(Set(Digits, FALSE), 0, 4), WB>>),
    Cat(<<WB, Words(<<"monday", "tuesday", "wednesday", "thursday", "friday", "saturday", "sunday">>), WB>>),
    Cat(<<WB, Words(<<"today", "tomorrow", "yesterday", "next week", "last week", "this month", "next month">>), WB>>)
  >>

TIME_PATTERNS ==
  <<
    Cat(<<WB, Cat(<<Rep(Set(Digits, FALSE), 1, 2), Lit(":"), Rep(Set(Digits, FALSE), 2, 2), Rep(Cat(<<Lit(":"), Rep(Set(Digits, FALSE), 2, 2)>>), 0, 1), Many(Set(SpaceChars, FALSE), 0), Rep(Words(<<"am", "pm", "AM", "PM">>), 0, 1)>>), WB>>),
    Cat(<<WB, Cat(<<Rep(Set(Digits, FALSE), 1, 2), Many(Set(SpaceChars, FALSE), 0), Words(<<"am", "pm", "AM", "PM">>)>>), WB>>),
    Cat(<<WB, Words(<<"noon", "midnight", "morning", "afternoon", "evening", "night">>), WB>>)
  >>

MONEY_PATTERNS ==
  <<
    Cat(<<Lit("$"), Many(Set(Digits, FALSE), 1), Many(Cat(<<Lit(","), Rep(Set(Digits, FALSE), 3, 3)>>), 0), Rep(Cat(<<Lit("."), Rep(Set(Digits, FALSE), 2, 2)>>), 0, 1), Rep(Cat(<<Many(Set(SpaceChars, FALSE), 0), Words(<<"million", "billion", "trillion", "k", "m", "b">>)>>), 0, 1)>>),
    Cat(<<Many(Set(Digits, FALSE), 1), Many(Cat(<<Lit(","), Rep(Set(Digits, FALSE), 3, 3)>>), 0), Rep(Cat(<<Lit("."), Rep(Set(Digits, FALSE), 2, 2)>>), 0, 1), Many(Set(SpaceChars, FALSE), 0), Words(<<"dollars", "usd", "euros", "eur", "pounds", "gbp", "yen", "jpy">>)>>),
    Cat(<<Alt(<<>>), Many(Set(Digits, FALSE), 1), Many(Cat(<<Lit(","), Rep(Set(Digits, FALSE), 3, 3)>>), 0), Rep(Cat(<<Lit("."), Rep(Set(Digits, FALSE), 2, 2)>>), 0, 1)>>)
  >>

PERCENTAGE_PATTERNS ==
  <<
    Cat(<<WB, Many(Set(Digits, FALSE), 1), Rep(Cat(<<Lit("."), Many(Set(Digits, FALSE), 1)>>), 0, 1), Lit("%")>>),
    Cat(<<WB, Many(Set(Digits, FALSE), 1), Rep(Cat(<<Lit("."), Many(Set(Digits, FALSE), 1)>>), 0, 1), Many(Set(SpaceChars, FALSE), 0), Lit("percent"), WB>>)
  >>

URL_PATTERN ==
  Alt(<<Cat(<<Lit("http"), Rep(Lit("s"), 0, 1), Lit("://"), Many(Set(SpaceChars, TRUE), 1)>>), Cat(<<Lit("www."), Many(Set(SpaceChars, TRUE), 1)>>)>>)

EMAIL_PATTERN ==
  Cat(<<Many(Set(Digits \cup Letters \cup {"%", "+", "-", ".", "_"}, FALSE), 1), Lit("@"), Many(Set(Digits \cup Letters \cup {"-", "."}, FALSE), 1), Lit("."), Many(Set(Letters, FALSE), 2)>>)

HASHTAG_PATTERN ==
  Cat(<<Lit("#"), Many(Set(Digits \cup Letters \cup {"_"}, FALSE), 1)>>)

MENTION_PATTERN ==
  Cat(<<Lit("@"), Many(Set(Digits \cup Letters \cup {"_"}, FALSE), 1)>>)

(* ---------------------------------------------------------------------- *)
(* Named-entity recognizer                                                 *)
(* ---------------------------------------------------------------------- *)

\* the capacity of the recognizer's cache
NerMaxCacheSize ==
  500

\* the length of the text prefix that keys the recognizer's cache
NerKeyLength ==
  150

createEntity(text, type, start, end, confidence) ==
  [text |-> text, type |-> type, startChar |-> start, endChar |-> end,
   confidence |-> confidence]

\* the entity of each match of text.match(pattern), placed at the first
\* occurrence of its text
MatchedEntities(text, ms, type) ==
  [k \in DOMAIN ms |->
     LET matched == Substring(text, ms[k][1], ms[k][2])
         start == IndexOfFrom(text, matched, 0)
     IN createEntity(matched, type, start, start + Len(matched), Num(95, 100))]

\* the entities of text.match(pattern): each match is placed at the first
\* occurrence of its text
MatchEntities(text, pattern, ci, type) ==
  MatchedEntities(text, MatchAll(pattern, text, 0, ci), type)

\* the entity of each match of an exec loop, placed where it was matched
ExecutedEntities(text, ms, type, confidence) ==
  [k \in DOMAIN ms |->
     createEntity(Substring(text, ms[k][1], ms[k][2]), type, ms[k][1], ms[k][2],
                  confidence)]

\* the entities of the exec loops over a list of patterns, each pattern
\* rebuilt with the flags g and i
ExecEntities(text, patterns, type, confidence) ==
  Flatten([p \in DOMAIN patterns |->
    ExecutedEntities(text, MatchAll(patterns[p], text, 0, TRUE), type, confidence)])

extractPatternEntities(text) ==
  MatchEntities(text, URL_PATTERN, TRUE, "URL")
  \o MatchEntities(text, EMAIL_PATTERN, TRUE, "EMAIL")
  \o MatchEntities(text, HASHTAG_PATTERN, FALSE, "HASHTAG")
  \o MatchEntities(text, MENTION_PATTERN, FALSE, "MENTION")
  \o ExecEntities(text, DATE_PATTERNS, "DATE", Num(85, 100))
  \o ExecEntities(text, TIME_PATTERNS, "TIME", Num(85, 100))
  \o ExecEntities(text, MONEY_PATTERNS, "MONEY", Num(9, 10))
  \o ExecEntities(text, PERCENTAGE_PATTERNS, "PERCENT", Num(9, 10))
  \o ExecEntities(text, EVENT_PATTERNS, "EVENT", Num(75, 100))

isCapitalized(word) ==
  Len(word) > 0 /\ SubSeq(word, 1, 1) \in CharsOf(UpperLetters)

isEntityConnector(word) ==
  ToLowerCase(word) \in {"of", "the", "and", "for", "in", "at", "on", "&", "-"}

\* the index after the run of capitalized words and connectors that starts at
\* the capitalized token i
SequenceEnd(tokens, i) ==
  First(i + 1, Len(tokens) + 1,
        LAMBDA j : j > Len(tokens)
                   \/ ~(isCapitalized(tokens[j].text) \/ isEntityConnector(tokens[j].text)),
        Len(tokens) + 1)

\* the run starting at token i, without its trailing connectors
extractCapitalizedSequence(tokens, i) ==
  LET end == SequenceEnd(tokens, i)
      kept == {j \in i..(end - 1) : ~isEntityConnector(tokens[j].text)}
  IN IF kept = {} THEN <<>>
     ELSE SubSeq(tokens, i, CHOOSE j \in kept : \A k \in kept : k <= j)

\* the lower-cased texts of the tokens joined without separator
Squeezed(tokens) ==
  Concat([k \in DOMAIN tokens |-> ToLowerCase(tokens[k].text)])

\* the entity type of a capitalized run, or None when it is too ambiguous
classifyEntity(tokens) ==
  LET firstWord == ToLowerCase(tokens[1].text)
      lastWord == ToLowerCase(tokens[Len(tokens)].text)
  IN IF lastWord \in ORG_INDICATORS \/ firstWord \in KNOWN_ORGANIZATIONS THEN "ORGANIZATION"
     ELSE IF lastWord \in LOCATION_INDICATORS \/ Squeezed(tokens) \in KNOWN_LOCATIONS
     THEN "LOCATION"
     ELSE IF firstWord \in NAME_PREFIXES \/ lastWord \in NAME_SUFFIXES THEN "PERSON"
     ELSE IF firstWord \in COMMON_FIRST_NAMES /\ Len(tokens) >= 2 THEN "PERSON"
     ELSE IF Squeezed(tokens) \in PRODUCT_INDICATORS THEN "PRODUCT"
     ELSE IF Len(tokens) = 1 THEN None
     ELSE IF Len(tokens) <= 3 THEN "PERSON"
     ELSE "ORGANIZATION"

checkKnownEntity(word) ==
  IF word \in KNOWN_ORGANIZATIONS THEN "ORGANIZATION"
  ELSE IF word \in KNOWN_LOCATIONS THEN "LOCATION"
  ELSE IF word \in PRODUCT_INDICATORS THEN "PRODUCT"
  ELSE None

calculateConfidence(tokens, entityType) ==
  LET firstWord == ToLowerCase(tokens[1].text)
      lastWord == ToLowerCase(tokens[Len(tokens)].text)
      byLength == Add(Num(1, 2), Min(Num(Len(tokens) * 5, 100), Num(2, 10)))
      byIndicator ==
        IF \/ entityType = "ORGANIZATION" /\ lastWord \in ORG_INDICATORS
           \/ entityType = "PERSON" /\ firstWord \in NAME_PREFIXES
           \/ entityType = "LOCATION" /\ lastWord \in LOCATION_INDICATORS
        THEN Add(byLength, Num(2, 10)) ELSE byLength
      byKnown ==
        IF firstWord \in KNOWN_ORGANIZATIONS \/ firstWord \in KNOWN_LOCATIONS
        THEN Add(byIndicator, Num(3, 10)) ELSE byIndicator
  IN Min(byKnown, Num(95, 100))

\* the text of a run: the token texts joined by single spaces
JoinedText(tokens) ==
  Concat([k \in DOMAIN tokens |-> IF k = 1 THEN tokens[k].text ELSE " " \o tokens[k].text])

\* the entities after a run of capitalized words: the run is added when it
\* could be classified
RunEntities(entities, entityTokens, entityType) ==
  IF entityType = None THEN entities
  ELSE Append(entities,
         createEntity(JoinedText(entityTokens), entityType,
                      entityTokens[1].startChar,
                      entityTokens[Len(entityTokens)].endChar,
                      calculateConfidence(entityTokens, entityType)))

\* the entities after a single word: the word is added when it is a known one
WordEntities(entities, token, known) ==
  IF known = None THEN entities
  ELSE Append(entities,
         createEntity(token.text, known, token.startChar, token.endChar, Num(8, 10)))

RECURSIVE TokenEntitiesFrom(_, _, _)
\* the body of the loop for an alphabetic token i, given the run of capitalized
\* words that starts there
TokenEntitiesAt(tokens, i, entities, entityTokens) ==
  IF entityTokens # <<>>
  THEN TokenEntitiesFrom(tokens, i + Len(entityTokens),
         RunEntities(entities, entityTokens, classifyEntity(entityTokens)))
  ELSE TokenEntitiesFrom(tokens, i + 1,
         WordEntities(entities, tokens[i], checkKnownEntity(ToLowerCase(tokens[i].text))))

\* the loop of extractTokenEntities from token i on
TokenEntitiesFrom(tokens, i, entities) ==
  IF i > Len(tokens) THEN entities
  ELSE IF ~tokens[i].isAlpha THEN TokenEntitiesFrom(tokens, i + 1, entities)
  ELSE TokenEntitiesAt(tokens, i, entities,
         IF isCapitalized(tokens[i].text)
         THEN extractCapitalizedSequence(tokens, i) ELSE <<>>)

extractTokenEntities(tokens) ==
  TokenEntitiesFrom(tokens, 1, <<>>)

\* the comparator of the sort: earlier start first, then the longer entity
Before(a, b) ==
  \/ a.startChar < b.startChar
  \/ a.startChar = b.startChar /\ b.endChar - b.startChar < a.endChar - a.startChar

\* the entities left in the order they were pushed
SortEntities_asPushed(entities) ==
  entities

\* the stable sort of the entities under the comparator
SortEntities(entities) ==
  LET rank(k) == Cardinality({j \in DOMAIN entities :
                   \/ Before(entities[j], entities[k])
                   \/ ~Before(entities[k], entities[j]) /\ j < k})
  IN [r \in DOMAIN entities |-> entities[CHOOSE k \in DOMAIN entities : rank(k) = r - 1]]

\* is the entity a repetition of one already kept
IsDuplicate(result, entity) ==
  \E k \in DOMAIN result :
    /\ result[k].text = entity.text
    /\ result[k].type = entity.type
    /\ Abs(result[k].startChar - entity.startChar) < 5

RECURSIVE DedupLoop_keepOverlaps(_, _, _, _)
\* the loop without the test against lastEnd
DedupLoop_keepOverlaps(sorted, k, result, lastEnd) ==
  IF k > Len(sorted) THEN result
  ELSE IF IsDuplicate(result, sorted[k])
  THEN DedupLoop_keepOverlaps(sorted, k + 1, result, lastEnd)
  ELSE DedupLoop_keepOverlaps(sorted, k + 1, Append(result, sorted[k]), sorted[k].endChar)

RECURSIVE DedupLoop(_, _, _, _)
\* the loop of deduplicateEntities over the sorted entities from the k-th on
DedupLoop(sorted, k, result, lastEnd) ==
  IF k > Len(sorted) THEN result
  ELSE IF sorted[k].startChar < lastEnd \/ IsDuplicate(result, sorted[k])
  THEN DedupLoop(sorted, k + 1, result, lastEnd)
  ELSE DedupLoop(sorted, k + 1, Append(result, sorted[k]), sorted[k].endChar)

deduplicateEntities(entities) ==
  DedupLoop(SortEntities(entities), 1, <<>>, -1)

(* ---------------------------------------------------------------------- *)
(* The script-generation hook: useGeneration                               *)
(* ---------------------------------------------------------------------- *)

null ==
  "null"

\* a value of Date.now()
now ==
  "now"

initialState ==
  [status |-> "idle", progress |-> 0, progressMessage |-> "", scripts |-> <<>>,
   viralityScore |-> null, error |-> null, url |-> "", startedAt |-> null,
   completedAt |-> null]

PROGRESS_STAGES ==
  [idle |-> [message |-> "", progress |-> 0],
   extracting |-> [message |-> "Extracting video transcript...", progress |-> 15],
   analyzing |-> [message |-> "Analyzing content for virality...", progress |-> 45],
   generating |-> [message |-> "Generating viral scripts...", progress |-> 75],
   complete |-> [message |-> "Generation complete!", progress |-> 100],
   error |-> [message |-> "An error occurred", progress |-> 0]]

\* setState(prev => ({ ...prev, ...updates }))
updateState(prev, updates) ==
  [f \in DOMAIN prev |-> IF f \in DOMAIN updates THEN updates[f] ELSE prev[f]]

setStage(prev, status) ==
  updateState(prev, [status |-> status,
                     progress |-> PROGRESS_STAGES[status].progress,
                     progressMessage |-> PROGRESS_STAGES[status].message])

\* the start of a YouTube address: ^https?:\/\/(www\.)?youtube\.com
YouTubeHost ==
  <<BOL, Lit("http"), Rep(Lit("s"), 0, 1), Lit("://"), Rep(Lit("www."), 0, 1),
    Lit("youtube.com")>>

\* [\w-]+
VideoId ==
  Many(Set(WordChars \cup {"-"}, FALSE), 1)

isValidYouTubeUrl(url) ==
  \E pattern \in {
       Cat(YouTubeHost \o <<Lit("/watch?v="), VideoId>>),
       Cat(<<BOL, Lit("http"), Rep(Lit("s"), 0, 1), Lit("://youtu.be/"), VideoId>>),
       Cat(YouTubeHost \o <<Lit("/shorts/"), VideoId>>),
       Cat(YouTubeHost \o <<Lit("/embed/"), VideoId>>),
       Cat(YouTubeHost \o <<Lit("/v/"), VideoId>>)} :
    Test(pattern, url, FALSE)

\* the addresses handed to generate
Urls ==
  {"", "https://example.com/watch?v=abc", "https://youtu.be/abc",
   "http://www.youtube.com/watch?v=a-b_c"}

\* what the server answers: a result, a body without scripts, an error with a
\* message, an error whose body is no JSON
Responses ==
  {[ok |-> TRUE, status |-> 200, json |-> TRUE,
    data |-> [scripts |-> <<"script">>, viralityScore |-> null]],
   [ok |-> TRUE, status |-> 200, json |-> TRUE, data |-> [error |-> null]],
   [ok |-> FALSE, status |-> 429, json |-> TRUE, data |-> [error |-> "Rate limited"]],
   [ok |-> FALSE, status |-> 500, json |-> FALSE, data |-> [error |-> null]]}

\* the decimal numeral of an HTTP status
StatusText(status) ==
  DigitString(status \div 100) \o DigitString((status \div 10) % 10)
    \o DigitString(status % 10)

\* the message of the Error thrown for a response that is not ok, given what
\* response.json().catch(() => ({})) resolved to
HttpErrorMessage(errorData, status) ==
  IF "error" \in DOMAIN errorData /\ errorData.error # null
  THEN errorData.error
  ELSE "HTTP " \o StatusText(status) \o ": Failed to generate scripts"

\* a call to generate that has not been made yet
Ready ==
  [pc |-> "ready", signal |-> 0, response |-> null, superseded |-> FALSE]

\* abortControllerRef.current.abort(): the controllers are kept in the order
\* of their creation, the last one being abortControllerRef.current
AbortCurrent(controllers) ==
  IF controllers = <<>> THEN controllers
  ELSE [controllers EXCEPT ![Len(controllers)] = TRUE]

\* the calls in flight become superseded when a newer call or reset starts
Supersede(gens) ==
  [c \in DOMAIN gens |->
     IF gens[c].pc \in {"ready", "done"} THEN gens[c]
     ELSE [gens[c] EXCEPT !.superseded = TRUE]]
(* ---------------------------------------------------------------------- *)
(* The loops of extract, one pass at a time                                *)
(* ---------------------------------------------------------------------- *)

\* no call of extract is in progress
NoExtraction ==
  [pc |-> "idle", text |-> "", run |-> <<>>, graph |-> <<>>, iteration |-> 0,
   scores |-> <<>>, vectors |-> <<>>, usedIndices |-> <<>>, redraws |-> 0, iter |-> 0,
   centroids |-> <<>>]

\* the graph extractTextRank builds from the tokens
TextRankGraphOf(tokens, cfg) ==
  TextRankGraph(WindowPairs(SelectSeq(tokens, LAMBDA t :
    t.isAlpha /\ ~t.isStopWord /\ Len(t.text) >= cfg.minWordLength)))

\* the scores calculate starts from
InitialScores(graph) ==
  [w \in Range(graph.nodes) |-> Fx(1, 1)]

\* does the loop of calculate end after the pass made at the given iteration:
\* the largest change is below the threshold, or it was the last pass allowed
TextRankEnds(pass, iteration) ==
  pass.maxDiff < convergenceThreshold \/ iteration + 1 >= maxIterations

\* the first half of a pass of the k-means loop: the index of the nearest
\* centroid of each vector
kMeansAssign(vectors, centroids) ==
  Tuple([v \in DOMAIN vectors |-> Nearest(vectors[v].vector, centroids)])

\* the second half: the centroids moved to the means of their vectors
kMeansMove(vectors, centroids, nearest) ==
  Let(MembersOf(vectors, centroids, nearest),
      LAMBDA members : NewCentroids(vectors, centroids, members))

\* does the k-means loop end after the pass made at the given iteration
kMeansEnds(centroids, newCentroids, iter) ==
  Converged(centroids, newCentroids) \/ iter + 1 >= kMeansMaxIterations
(* ---------------------------------------------------------------------- *)
(* The application store: the generation and the history slices            *)
(* ---------------------------------------------------------------------- *)

\* initialState of the store, the slices modelled
appInitialState ==
  [generation |->
     [status |-> "idle", currentUrl |-> "", progress |-> 0, progressMessage |-> "",
      scripts |-> <<>>, viralityScore |-> null, error |-> null, startedAt |-> null,
      completedAt |-> null],
   history |->
     [items |-> <<>>, loading |-> FALSE, error |-> null,
      pagination |-> [page |-> 1, pageSize |-> 10, total |-> 0, hasMore |-> FALSE],
      filters |-> [platform |-> null, dateRange |-> null, searchQuery |-> "",
                   sortBy |-> "date", sortOrder |-> "desc"]]]

\* { ...object, ...updates }
Spread(object, updates) ==
  [f \in DOMAIN object \cup DOMAIN updates |->
     IF f \in DOMAIN updates THEN updates[f] ELSE object[f]]

generationReducer(generation, action) ==
  CASE action.type = "GENERATION_START" ->
         Spread(generation,
                [status |-> "extracting", currentUrl |-> action.payload, progress |-> 0,
                 progressMessage |-> "Starting generation...", scripts |-> <<>>,
                 viralityScore |-> null, error |-> null, startedAt |-> now,
                 completedAt |-> null])
    [] action.type = "GENERATION_PROGRESS" ->
         Spread(generation, [progress |-> action.payload.progress,
                             progressMessage |-> action.payload.message])
    [] action.type = "GENERATION_EXTRACTING" ->
         Spread(generation, [status |-> "extracting",
                             progressMessage |-> "Extracting video transcript..."])
    [] action.type = "GENERATION_ANALYZING" ->
         Spread(generation, [status |-> "analyzing",
                             progressMessage |-> "Analyzing content for virality..."])
    [] action.type = "GENERATION_GENERATING" ->
         Spread(generation, [status |-> "generating",
                             progressMessage |-> "Generating viral scripts..."])
    [] action.type = "GENERATION_COMPLETE" ->
         Spread(generation,
                [status |-> "complete", progress |-> 100,
                 progressMessage |-> "Generation complete!",
                 scripts |-> action.payload.scripts,
                 viralityScore |-> action.payload.viralityScore,
                 completedAt |-> now])
    [] action.type = "GENERATION_ERROR" ->
         Spread(generation, [status |-> "error", error |-> action.payload,
                             completedAt |-> now])
    [] action.type = "GENERATION_RESET" -> appInitialState.generation
    [] action.type = "GENERATION_UPDATE_SCRIPT" ->
         Spread(generation,
                [scripts |-> [i \in DOMAIN generation.scripts |->
                                IF i - 1 = action.payload.index
                                THEN Spread(generation.scripts[i], action.payload.script)
                                ELSE generation.scripts[i]]])
    [] OTHER -> generation

historyReducer(history, action) ==
  CASE action.type = "HISTORY_FETCH_START" ->
         Spread(history, [loading |-> TRUE, error |-> null])
    [] action.type = "HISTORY_FETCH_SUCCESS" ->
         Spread(history,
                [items |-> action.payload.items, loading |-> FALSE,
                 pagination |->
                   Spread(history.pagination,
                          [total |-> action.payload.total,
                           hasMore |-> Len(action.payload.items)
                                         >= history.pagination.pageSize])])
    [] action.type = "HISTORY_FETCH_FAILURE" ->
         Spread(history, [loading |-> FALSE, error |-> action.payload])
    [] action.type = "HISTORY_ADD_ITEM" ->
         Spread(history,
                [items |-> <<action.payload>> \o history.items,
                 pagination |-> Spread(history.pagination,
                                       [total |-> history.pagination.total + 1])])
    [] action.type = "HISTORY_REMOVE_ITEM" ->
         Spread(history,
                [items |-> SelectSeq(history.items, LAMBDA item : item.id # action.payload),
                 pagination |-> Spread(history.pagination,
                                       [total |-> history.pagination.total - 1])])
    [] action.type = "HISTORY_TOGGLE_FAVORITE" ->
         Spread(history,
                [items |-> [i \in DOMAIN history.items |->
                              IF history.items[i].id = action.payload
                              THEN Spread(history.items[i],
                                          [isFavorite |-> ~history.items[i].isFavorite])
                              ELSE history.items[i]]])
    [] action.type = "HISTORY_SET_FILTER" ->
         Spread(history, [filters |-> Spread(history.filters, action.payload),
                          pagination |-> Spread(history.pagination, [page |-> 1])])
    [] action.type = "HISTORY_SET_PAGE" ->
         Spread(history, [pagination |-> Spread(history.pagination,
                                                [page |-> action.payload])])
    [] action.type = "HISTORY_CLEAR" -> appInitialState.history
    [] OTHER -> history

\* appReducer: every slice reduces the action
appReducer(appState, action) ==
  [generation |-> generationReducer(appState.generation, action),
   history |-> historyReducer(appState.history, action)]

\* the number of different ids of history items
MaxIds ==
  2

Ids ==
  1..MaxIds

\* the result of a generation, as the store keeps it
Generated ==
  [scripts |-> <<[platform |-> "tiktok", hook |-> "Stop scrolling"]>>,
   viralityScore |-> [overall |-> 80]]

\* the GENERATION_* actions dispatched
GenerationActions ==
  {[type |-> "GENERATION_START", payload |-> "https://youtu.be/abcdefghijk"],
   [type |-> "GENERATION_PROGRESS", payload |-> [progress |-> 45, message |-> "Analyzing"]],
   [type |-> "GENERATION_EXTRACTING"],
   [type |-> "GENERATION_ANALYZING"],
   [type |-> "GENERATION_GENERATING"],
   [type |-> "GENERATION_COMPLETE", payload |-> Generated],
   [type |-> "GENERATION_ERROR", payload |-> "Network error"],
   [type |-> "GENERATION_RESET"],
   [type |-> "GENERATION_UPDATE_SCRIPT",
    payload |-> [index |-> 0, script |-> [hook |-> "Wait for it"]]]}

\* the history actions dispatched on the items kept: an item is added under an
\* id no item kept has
HistoryActions(items) ==
  {[type |-> "HISTORY_ADD_ITEM", payload |-> [id |-> id, isFavorite |-> FALSE]] :
     id \in Ids \ {items[i].id : i \in DOMAIN items}}
  \cup {[type |-> "HISTORY_REMOVE_ITEM", payload |-> id] : id \in Ids}
  \cup {[type |-> "HISTORY_TOGGLE_FAVORITE", payload |-> id] : id \in Ids}
  \cup {[type |-> "HISTORY_CLEAR"]}
(* ---------------------------------------------------------------------- *)
(* The texts of the runs, and what the engines compute for them on a miss  *)
(* ---------------------------------------------------------------------- *)

\* a run of 200 characters without whitespace: as long as the longest cache key
Pad ==
  Repeat("x", 200)

\* the texts handed to tokenize
TokTexts ==
  {"", "Hello world.", "a_b", "_", "It's 3.5% of 1,000 - don't stop!",
   "Dr. Smith met Mrs. Jones. They left.", "the the  the"}

\* the texts handed to split; the last two agree on their first 200 characters
SplitTexts ==
  {"", "  ", "Dr. Smith met Mrs. Jones. They left.", "Hello world. How are you?  ",
   "It was good! (Really?) Bad... e.g. this", "Stop", Pad \o " wins.",
   Pad \o " wins. It fails.", "See www.Example.com now", "Wait... what"}

\* the texts handed to analyze
SentTexts ==
  {"", "Hello world.", "This is not good at all.", "This is good at all.",
   "I really love it, truly amazing!", "not very bad", "It is never ever ever good",
   "constructors good", "Constructor", "so terrible and barely awful",
   "not so very truly good", "not at all that good"}

\* the texts handed to analyzeEmotions: without a lexicon word, with several
\* emotions, with an emotion outside the scored ones, with an inherited lemma
EmotionTexts ==
  {"", "Hello world.", "I love this amazing win", "calm and easy", "Constructor",
   "sad but happy"}

\* a text with an e-mail address and a URL
ContactText ==
  "Contact john@example.com or visit https://example.com"

\* the texts handed to recognize; the last two agree on their first 150
\* characters
NerTexts ==
  {"", "mail a@b.co now #x", "#tag #tag @joe 50% off at 5 pm",
   "Dr. John Smith of Acme Corp visited New York on Monday",
   "Visit www.x.com. The Google launch is today!", Pad \o " @joe", Pad \o " #tag at Paris",
   ContactText, "We met John  Smith today"}

\* a run of 100 characters without whitespace: as long as the cache key of the
\* keyword extractor and of the tokenizer
ShortPad ==
  Repeat("x", 100)

\* the texts handed to extract; two of them agree on their first 100 characters
KwTexts ==
  {"", "constructor", "cat dog dog. cat dog", ShortPad \o " done", ShortPad \o " deal"}

\* the texts handed to extract for the topic clustering: the second one has
\* more keywords than there are centroids
TopicTexts ==
  {"", "red apple green pear blue plum", "cat dog dog. cat dog"}

\* the texts handed to extract when its loops are followed pass by pass
LoopTexts ==
  {"", "constructor", "cat dog dog. cat dog", "red apple green pear"}

\* the corpora handed to extract; the empty one stands for no corpus as well
Corpora ==
  {<<>>, <<"deal me in", "so done">>}

RECURSIVE Decimal(_)
\* the decimal numeral of a natural number
Decimal(n) ==
  IF n < 10 THEN DigitString(n) ELSE Decimal(n \div 10) \o DigitString(n % 10)

\* the texts handed to tokenize as call number n of a run that fills the cache:
\* the first call may be on the empty text, every call up to the cap is on a
\* text not seen before, and the calls after it are on a new text or on one of
\* the three texts seen first
CacheTexts(n) ==
  IF n = 0 THEN {"", Decimal(0)}
  ELSE IF n < TokenizerMaxCacheSize THEN {Decimal(n)}
  ELSE {Decimal(n), "", Decimal(0), Decimal(1), Decimal(2)}

\* the texts without a letter or a digit: empty, whitespace only, punctuation
\* only
NearEmptyTexts ==
  {"", "  ", "?!", "@_"}

\* the texts handed to every engine in turn
EdgeTexts ==
  NearEmptyTexts \cup {"Stop"}

\* the texts handed to the tokenizer and to the engines built on it; the first
\* two agree on their first 100 characters
SharedTexts ==
  {ShortPad \o " good", ShortPad \o " bad in Paris", "fine"}

\* the configurations a KeywordExtractor is constructed with
Configs ==
  {DEFAULT_CONFIG, [DEFAULT_CONFIG EXCEPT !.maxKeywords = 2, !.maxKeyphrases = 1]}

\* the sentence spans of the texts, computed once per text
FreshSpans ==
  Table([t \in SplitTexts \cup KwTexts \cup EdgeTexts \cup TopicTexts
           \cup LoopTexts |-> SentenceSpans(t)])

\* what a table holds for a key; a key outside the table is computed afresh
Lookup(table, key, fresh) ==
  IF key \in DOMAIN table THEN table[key] ELSE fresh

Spans(text) ==
  Lookup(FreshSpans, text, SentenceSpans(text))

\* the trimmed texts of the spans of every text of a table of spans
TrimmedTexts(spans) ==
  UNION {{Trim(Substring(t, spans[t][i].startChar, spans[t][i].endChar)) :
            i \in DOMAIN spans[t]} : t \in DOMAIN spans}

\* the trimmed sentence texts split hands to the tokenizer
SentenceTexts ==
  TrimmedTexts(FreshSpans)

\* fresh tokenizations, computed once per text
FreshTokens ==
  Table([t \in TokTexts \cup SplitTexts \cup SentenceTexts \cup SentTexts
     \cup NerTexts \cup KwTexts \cup EdgeTexts \cup SharedTexts \cup EmotionTexts \cup TopicTexts \cup LoopTexts
     \cup UNION {Range(c) : c \in Corpora}
           |-> TokenizeFresh(t)])

Tokens(text) ==
  Lookup(FreshTokens, text, TokenizeFresh(text))

\* the token sequences handed to analyzeTokens
SentTokens ==
  {Tokens(t) : t \in SentTexts}

\* the pattern entities of the texts, computed once per text
FreshPatternEntities ==
  Table([t \in NerTexts \cup EdgeTexts \cup SharedTexts |-> extractPatternEntities(t)])

PatternEntities(text) ==
  Lookup(FreshPatternEntities, text, extractPatternEntities(text))

(* ---------------------------------------------------------------------- *)
(* The calls, as functions of the caches they read and write               *)
(* ---------------------------------------------------------------------- *)

\* the end of tokenize on a cache miss: the tokens are stored and returned
TokenizeMiss(cache, cacheKey, tokens) ==
  [result |-> tokens,
   cache |-> CachePut(cache, cacheKey, tokens, TokenizerMaxCacheSize)]

\* tokenize(text) on a tokenizer whose cache is cache: the tokens returned and
\* the cache afterwards
tokenize(cache, text) ==
  LET cacheKey == Substring(text, 0, TokenizerKeyLength)
  IN IF CacheHas(cache, cacheKey)
     THEN [result |-> CacheGet(cache, cacheKey), cache |-> cache]
     ELSE TokenizeMiss(cache, cacheKey, Tokens(text))

\* the sentence split pushes for a span
SentenceRecord(sentenceText, span, tokens) ==
  [text |-> sentenceText,
   tokens |-> tokens,
   startChar |-> span.startChar,
   endChar |-> span.endChar,
   type |-> detectSentenceType(sentenceText, tokens),
   sentiment |-> calculateBasicSentiment(tokens),
   complexity |-> analyzeComplexity(tokens)]

RECURSIVE SplitLoop(_, _, _, _, _)
\* the body of split for the k-th span, given what the shared tokenizer
\* returned for its text; a TypeError ends the call
SplitStep(text, spans, k, sentences, sentenceText, tok) ==
  IF LemmaThrows(tok.result)
  THEN [result |-> <<>>, cache |-> tok.cache, error |-> "TypeError"]
  ELSE SplitLoop(text, spans, k + 1,
                 Append(sentences, SentenceRecord(sentenceText, spans[k], tok.result)),
                 tok.cache)

\* the body of split over the spans from the k-th on: each sentence is tokenized
\* through the shared tokenizer
SplitLoop(text, spans, k, sentences, cache) ==
  IF k > Len(spans) THEN [result |-> sentences, cache |-> cache, error |-> ""]
  ELSE LET sentenceText == Trim(Substring(text, spans[k].startChar, spans[k].endChar))
       IN SplitStep(text, spans, k, sentences, sentenceText,
                    tokenize(cache, sentenceText))

\* the end of split on a cache miss: the sentences are stored unless the loop
\* threw
SplitMiss(cache, cacheKey, run) ==
  [result |-> run.result,
   cache |-> IF run.error # "" THEN cache
             ELSE CachePut(cache, cacheKey, run.result, SplitterMaxCacheSize),
   tcache |-> run.cache,
   error |-> run.error]

\* split(text) on a splitter whose cache is cache, with the shared tokenizer's
\* cache tcache: the sentences returned, both caches afterwards, and the error
\* thrown if any
split(cache, tcache, text) ==
  LET cacheKey == Substring(text, 0, SplitterKeyLength)
  IN IF CacheHas(cache, cacheKey)
     THEN [result |-> CacheGet(cache, cacheKey), cache |-> cache, tcache |-> tcache,
           error |-> ""]
     ELSE SplitMiss(cache, cacheKey, SplitLoop(text, Spans(text), 1, <<>>, tcache))

\* the end of analyze on a cache miss: the score is stored and returned
AnalyzeStore(cache, cacheKey, tcache, score) ==
  [result |-> score,
   cache |-> CachePut(cache, cacheKey, score, SentimentMaxCacheSize),
   tcache |-> tcache,
   error |-> ""]

\* analyze on a cache miss, given what the shared tokenizer returned
AnalyzeMiss(cache, cacheKey, tok) ==
  IF LemmaThrows(tok.result)
  THEN [result |-> <<>>, cache |-> cache, tcache |-> tok.cache, error |-> "TypeError"]
  ELSE AnalyzeStore(cache, cacheKey, tok.cache, analyzeTokens(tok.result))

\* analyze(text) on an analyzer whose cache is cache, with the shared
\* tokenizer's cache tcache
analyze(cache, tcache, text) ==
  LET cacheKey == Substring(text, 0, SentimentKeyLength)
  IN IF CacheHas(cache, cacheKey)
     THEN [result |-> CacheGet(cache, cacheKey), cache |-> cache, tcache |-> tcache,
           error |-> ""]
     ELSE AnalyzeMiss(cache, cacheKey, tokenize(tcache, text))

\* analyzeEmotions(text) with the shared tokenizer's cache tcache; the analyzer
\* keeps no cache of emotions
analyzeEmotions(tcache, text) ==
  EmotionsOf(tokenize(tcache, text))

\* the end of recognize on a cache miss: the entities are stored and returned
RecognizeStore(cache, cacheKey, tcache, dedupedEntities) ==
  [result |-> dedupedEntities,
   cache |-> CachePut(cache, cacheKey, dedupedEntities, NerMaxCacheSize),
   tcache |-> tcache]

\* recognize on a cache miss, given what the shared tokenizer returned
RecognizeMiss(cache, cacheKey, text, tok) ==
  RecognizeStore(cache, cacheKey, tok.cache,
    deduplicateEntities(PatternEntities(text) \o extractTokenEntities(tok.result)))

\* recognize(text) on a recognizer whose cache is cache, with the shared
\* tokenizer's cache tcache
recognize(cache, tcache, text) ==
  LET cacheKey == Substring(text, 0, NerKeyLength)
  IN IF CacheHas(cache, cacheKey)
     THEN [result |-> CacheGet(cache, cacheKey), cache |-> cache, tcache |-> tcache]
     ELSE RecognizeMiss(cache, cacheKey, text, tokenize(tcache, text))

\* the keyphrases are drawn from the RAKE phrases and the merged keywords
RankedKeywords(text, rakeKeywords, combinedKeywords) ==
  [combinedKeywords |-> combinedKeywords,
   keyphrases |-> extractKeyphrases(text, rakeKeywords, combinedKeywords)]

\* the merged keywords and the keyphrases of extract, given the tokens the
\* tokenizer returned for the text and for each document of the corpus
KeywordRun(text, tokens, corpusTokens, cfg) ==
  RankedKeywords(text,
    IF cfg.useRake THEN extractRake(text, cfg) ELSE <<>>,
    combineKeywords(<<IF cfg.useTextRank THEN extractTextRank(tokens, cfg) ELSE <<>>,
                      IF cfg.useTFIDF THEN extractTFIDF(tokens, corpusTokens) ELSE <<>>,
                      IF cfg.includeNGrams THEN extractNGrams(tokens) ELSE <<>>>>))

RECURSIVE TokenizeCorpus(_, _, _, _)
\* the body of calculateIDFFromCorpus for the k-th document, given what the
\* shared tokenizer returned for it; a TypeError ends the call
CorpusStep(corpus, k, docs, tok) ==
  IF LemmaThrows(SelectSeq(tok.result, LAMBDA t : t.isAlpha))
  THEN [tokens |-> docs, cache |-> tok.cache, error |-> "TypeError"]
  ELSE TokenizeCorpus(tok.cache, corpus, k + 1, Append(docs, tok.result))

\* calculateIDFFromCorpus tokenizing the documents from the k-th on through the
\* shared tokenizer
TokenizeCorpus(tcache, corpus, k, docs) ==
  IF k > Len(corpus) THEN [tokens |-> docs, cache |-> tcache, error |-> ""]
  ELSE CorpusStep(corpus, k, docs, tokenize(tcache, corpus[k]))

\* the end of extract before the topic clustering: the keywords, the
\* keyphrases and the statistics
ExtractRun(text, tok, sp, docs, run) ==
  [hit |-> FALSE, error |-> "", scache |-> sp.cache, tcache |-> docs.cache,
   tokens |-> tok.result,
   clusterTokens |-> tokenize(docs.cache, text).result,
   combinedKeywords |-> run.combinedKeywords,
   keyphrases |-> run.keyphrases,
   statistics |-> calculateStatistics(tok.result, Len(sp.result),
                                      run.combinedKeywords)]

\* extract once the corpus has been tokenized for the TF-IDF weights
ExtractScored(text, cfg, tok, sp, docs) ==
  IF docs.error # ""
  THEN [hit |-> FALSE, error |-> docs.error, scache |-> sp.cache, tcache |-> docs.cache]
  ELSE ExtractRun(text, tok, sp, docs, KeywordRun(text, tok.result, docs.tokens, cfg))

\* extract once the text has been split into sentences: the text is tokenized
\* again by the TF-IDF calculator, then each document of the corpus
ExtractSplit(text, corpus, cfg, tok, sp) ==
  IF sp.error # ""
  THEN [hit |-> FALSE, error |-> sp.error, scache |-> sp.cache, tcache |-> sp.tcache]
  ELSE IF LemmaThrows(tok.result)
  THEN [hit |-> FALSE, error |-> "TypeError", scache |-> sp.cache, tcache |-> sp.tcache]
  ELSE ExtractScored(text, cfg, tok, sp,
         IF cfg.useTFIDF
         THEN TokenizeCorpus(tokenize(sp.tcache, text).cache, corpus, 1, <<>>)
         ELSE [tokens |-> <<>>, cache |-> sp.tcache, error |-> ""])

\* extract once the text has been tokenized
ExtractTokenized(scache, text, corpus, cfg, tok) ==
  ExtractSplit(text, corpus, cfg, tok, split(scache, tok.cache, text))

\* extract(text, corpus) up to the topic clustering, on an extractor whose cache
\* is cache and whose configuration is cfg, with the caches of the shared
\* splitter and tokenizer. A token whose lemma is not a string is a content
\* token, so that extractTextRank is where its lemma is first read.
extractKeywords(cache, scache, tcache, text, corpus, cfg) ==
  LET cacheKey == Substring(text, 0, KeywordKeyLength)
  IN IF CacheHas(cache, cacheKey)
     THEN [hit |-> TRUE, result |-> CacheGet(cache, cacheKey), error |-> "",
           scache |-> scache, tcache |-> tcache]
     ELSE ExtractTokenized(scache, text, corpus, cfg, tokenize(tcache, text))

\* the keywords the topic clustering starts from
TopicKeywords(candidates) ==
  Tuple([k \in DOMAIN candidates |-> candidates[k].keyword])

\* the result extract builds from the merged keywords, the keyphrases and the
\* indices the seeding of the topic clustering drew
ExtractedKeywords(run, cfg, seeds) ==
  [keywords |-> Slice(run.combinedKeywords, cfg.maxKeywords),
   keyphrases |-> Slice(run.keyphrases, cfg.maxKeyphrases),
   topics |-> cluster(TopicKeywords(Slice(run.combinedKeywords, TopicCandidates)),
                      run.clusterTokens, seeds),
   statistics |-> run.statistics]
(* ---------------------------------------------------------------------- *)
(* State: the module-level singletons and the last completed call          *)
(* ---------------------------------------------------------------------- *)

VARIABLES
  tokCache,     \* tokenizer.cache: entries [key, value] in insertion order
  splitCache,   \* sentenceSplitter.cache
  sentCache,    \* sentimentAnalyzer.cache
  nerCache,     \* nerRecognizer.cache
  kwCache,      \* keywordExtractor.cache
  config,       \* keywordExtractor.config
  ret,          \* the last completed call: [op, input, result, error]
  calls,        \* the number of calls made so far
  state,        \* useGeneration: the state of the hook
  abortControllers, \* the AbortControllers created so far, each aborted or not;
                \* the last one is abortControllerRef.current
  generations,  \* the calls to generate: where each one is in its body
  resets,       \* the number of calls to reset made so far
  extraction,   \* the call of extract in progress: where it is in its loops
  store         \* the application store: its generation and history slices

\* the variables of the hook and the store, which the engines leave alone
hookVars ==
  <<state, abortControllers, generations, resets, store>>

vars ==
  <<tokCache, splitCache, sentCache, nerCache, kwCache, config, ret, calls,
    state, abortControllers, generations, resets, extraction, store>>

\* the number of calls to generate in one run
MaxGenerations ==
  2

\* the number of calls to reset in one run
MaxResets ==
  1

\* the number of calls in one run
MaxCalls ==
  3

Init ==
  /\ tokCache = <<>>
  /\ splitCache = <<>>
  /\ sentCache = <<>>
  /\ nerCache = <<>>
  /\ kwCache = <<>>
  /\ config \in Configs
  /\ ret = [op |-> "none", input |-> "", result |-> <<>>, error |-> ""]
  /\ calls = 0
  /\ state = initialState
  /\ abortControllers = <<>>
  /\ generations = [c \in 1..MaxGenerations |-> Ready]
  /\ resets = 0
  /\ extraction = NoExtraction
  /\ store = appInitialState

\* the number of leading calls of a run among which those to the keyword
\* extractor are
MaxKwCalls ==
  2

\* every call counts toward the length of the run
Call ==
  /\ calls < MaxCalls
  /\ calls' = calls + 1

\* what tokenize leaves behind: the cache and the tokens returned
TokenizeReturn(text, r) ==
  /\ tokCache' = r.cache
  /\ ret' = [op |-> "tokenize", input |-> text, result |-> r.result, error |-> ""]

\* tokenizer.tokenize(text)
Tokenize(text) ==
  /\ Call
  /\ TokenizeReturn(text, tokenize(tokCache, text))
  /\ UNCHANGED <<splitCache, sentCache, nerCache, kwCache, config>>
  /\ UNCHANGED <<hookVars, extraction>>

\* tokenizer.clearCache()
TokenizerClearCache ==
  /\ Call
  /\ tokCache' = <<>>
  /\ ret' = [op |-> "tokenizer.clearCache", input |-> "", result |-> <<>>, error |-> ""]
  /\ UNCHANGED <<splitCache, sentCache, nerCache, kwCache, config>>
  /\ UNCHANGED <<hookVars, extraction>>

\* what split leaves behind: both caches and the sentences returned or the
\* error thrown
SplitReturn(text, r) ==
  /\ splitCache' = r.cache
  /\ tokCache' = r.tcache
  /\ ret' = [op |-> "split", input |-> text, result |-> r.result, error |-> r.error]

\* sentenceSplitter.split(text)
Split(text) ==
  /\ Call
  /\ SplitReturn(text, split(splitCache, tokCache, text))
  /\ UNCHANGED <<sentCache, nerCache, kwCache, config>>
  /\ UNCHANGED <<hookVars, extraction>>

\* sentenceSplitter.clearCache()
SplitterClearCache ==
  /\ Call
  /\ splitCache' = <<>>
  /\ ret' = [op |-> "sentenceSplitter.clearCache", input |-> "", result |-> <<>>,
             error |-> ""]
  /\ UNCHANGED <<tokCache, sentCache, nerCache, kwCache, config>>
  /\ UNCHANGED <<hookVars, extraction>>

\* what analyze leaves behind: both caches and the score returned or the error
\* thrown
AnalyzeReturn(text, r) ==
  /\ sentCache' = r.cache
  /\ tokCache' = r.tcache
  /\ ret' = [op |-> "analyze", input |-> text, result |-> r.result, error |-> r.error]

\* sentimentAnalyzer.analyze(text)
Analyze(text) ==
  /\ Call
  /\ AnalyzeReturn(text, analyze(sentCache, tokCache, text))
  /\ UNCHANGED <<splitCache, nerCache, kwCache, config>>
  /\ UNCHANGED <<hookVars, extraction>>

\* sentimentAnalyzer.analyzeTokens(tokens): reads and writes no cache
AnalyzeTokens(tokens) ==
  /\ Call
  /\ ret' = IF LemmaThrows(tokens)
            THEN [op |-> "analyzeTokens", input |-> tokens, result |-> <<>>,
                  error |-> "TypeError"]
            ELSE [op |-> "analyzeTokens", input |-> tokens,
                  result |-> analyzeTokens(tokens), error |-> ""]
  /\ UNCHANGED <<tokCache, splitCache, sentCache, nerCache, kwCache, config>>
  /\ UNCHANGED <<hookVars, extraction>>

\* what analyzeEmotions leaves behind: the tokenizer's cache and the emotions
\* returned or the error thrown
EmotionsReturn(text, r) ==
  /\ tokCache' = r.tcache
  /\ ret' = [op |-> "analyzeEmotions", input |-> text, result |-> r.result,
             error |-> r.error]

\* sentimentAnalyzer.analyzeEmotions(text)
AnalyzeEmotions(text) ==
  /\ Call
  /\ EmotionsReturn(text, analyzeEmotions(tokCache, text))
  /\ UNCHANGED <<splitCache, sentCache, nerCache, kwCache, config>>
  /\ UNCHANGED <<hookVars, extraction>>

\* sentimentAnalyzer.clearCache()
SentimentClearCache ==
  /\ Call
  /\ sentCache' = <<>>
  /\ ret' = [op |-> "sentimentAnalyzer.clearCache", input |-> "", result |-> <<>>,
             error |-> ""]
  /\ UNCHANGED <<tokCache, splitCache, nerCache, kwCache, config>>
  /\ UNCHANGED <<hookVars, extraction>>

\* what recognize leaves behind: both caches and the entities returned
RecognizeReturn(text, r) ==
  /\ nerCache' = r.cache
  /\ tokCache' = r.tcache
  /\ ret' = [op |-> "recognize", input |-> text, result |-> r.result, error |-> ""]

\* nerRecognizer.recognize(text)
Recognize(text) ==
  /\ Call
  /\ RecognizeReturn(text, recognize(nerCache, tokCache, text))
  /\ UNCHANGED <<splitCache, sentCache, kwCache, config>>
  /\ UNCHANGED <<hookVars, extraction>>

\* nerRecognizer.clearCache()
NerClearCache ==
  /\ Call
  /\ nerCache' = <<>>
  /\ ret' = [op |-> "nerRecognizer.clearCache", input |-> "", result |-> <<>>, error |-> ""]
  /\ UNCHANGED <<tokCache, splitCache, sentCache, kwCache, config>>
  /\ UNCHANGED <<hookVars, extraction>>

\* a call to the keyword extractor
KwCall ==
  /\ calls < MaxKwCalls
  /\ calls' = calls + 1

\* what a call to extract returns
ExtractResult(text, corpus, result, error) ==
  [op |-> "extract", input |-> text, corpus |-> corpus, result |-> result,
   error |-> error]

\* the end of extract on a cache miss: the result is stored and returned
ExtractStore(text, corpus, run, result) ==
  /\ ret' = ExtractResult(text, corpus, result, "")
  /\ tokCache' = run.tcache
  /\ splitCache' = run.scache
  /\ kwCache' = CachePut(kwCache, Substring(text, 0, KeywordKeyLength), result,
                         KeywordMaxCacheSize)

\* the topic clustering of extract: the seeding draws distinct indices among
\* the n keywords it starts from
ExtractTopics(text, corpus, run, n) ==
  \E seeds \in Seedings(n, NumCentroids(n)) :
    ExtractStore(text, corpus, run, ExtractedKeywords(run, config, seeds))

\* what extract leaves behind
ExtractReturn(text, corpus, run) ==
  IF run.hit
  THEN /\ ret' = ExtractResult(text, corpus, run.result, "")
       /\ UNCHANGED <<tokCache, splitCache, kwCache>>
  ELSE IF run.error # ""
  THEN /\ ret' = ExtractResult(text, corpus, <<>>, run.error)
       /\ tokCache' = run.tcache
       /\ splitCache' = run.scache
       /\ UNCHANGED kwCache
  ELSE ExtractTopics(text, corpus, run,
                     Len(Slice(run.combinedKeywords, TopicCandidates)))

\* keywordExtractor.extract(text, corpus); on a cache miss the seeding of the
\* topic clustering draws distinct indices at random
Extract(text, corpus) ==
  /\ KwCall
  /\ ExtractReturn(text, corpus,
                   extractKeywords(kwCache, splitCache, tokCache, text, corpus, config))
  /\ UNCHANGED <<sentCache, nerCache, config>>
  /\ UNCHANGED <<hookVars, extraction>>

\* keywordExtractor.clearCache()
KeywordClearCache ==
  /\ KwCall
  /\ kwCache' = <<>>
  /\ ret' = [op |-> "keywordExtractor.clearCache", input |-> "", result |-> <<>>, error |-> ""]
  /\ UNCHANGED <<tokCache, splitCache, sentCache, nerCache, config>>
  /\ UNCHANGED <<hookVars, extraction>>

NextTok ==
  \/ \E text \in TokTexts : Tokenize(text)
  \/ TokenizerClearCache

SpecTok ==
  Init /\ [][NextTok]_vars

NextSplit ==
  \/ \E text \in SplitTexts : Split(text)
  \/ SplitterClearCache

SpecSplit ==
  Init /\ [][NextSplit]_vars

NextSent ==
  \/ \E text \in SentTexts : Analyze(text)
  \/ \E tokens \in SentTokens : AnalyzeTokens(tokens)
  \/ SentimentClearCache

SpecSent ==
  Init /\ [][NextSent]_vars

\* the number of calls of extract in a run that clusters topics
MaxTopicCalls ==
  1

\* keywordExtractor.extract(text) in a run with few calls of extract
ExtractInTurn(text) ==
  /\ calls < MaxTopicCalls
  /\ calls' = calls + 1
  /\ ExtractReturn(text, <<>>,
                   extractKeywords(kwCache, splitCache, tokCache, text, <<>>, config))
  /\ UNCHANGED <<sentCache, nerCache, config>>
  /\ UNCHANGED <<hookVars, extraction>>

NextTopics ==
  \/ \E text \in TopicTexts : ExtractInTurn(text)
  \/ \E text \in TopicTexts : Tokenize(text)
  \/ KeywordClearCache

SpecTopics ==
  Init /\ [][NextTopics]_vars

NextEmotions ==
  \/ \E text \in EmotionTexts : AnalyzeEmotions(text)
  \/ \E text \in EmotionTexts : Tokenize(text)
  \/ TokenizerClearCache

SpecEmotions ==
  Init /\ [][NextEmotions]_vars

NextNer ==
  \/ \E text \in NerTexts : Recognize(text)
  \/ NerClearCache

SpecNer ==
  Init /\ [][NextNer]_vars

NextKw ==
  \/ \E text \in KwTexts, corpus \in Corpora : Extract(text, corpus)
  \/ KeywordClearCache
  \/ \E text \in KwTexts : Tokenize(text)
  \/ TokenizerClearCache

SpecKw ==
  Init /\ [][NextKw]_vars

\* every engine in turn on the texts at the edge of the input space
NextEdge ==
  \/ \E text \in EdgeTexts : Tokenize(text)
  \/ \E text \in EdgeTexts : Split(text)
  \/ \E text \in EdgeTexts : Analyze(text)
  \/ \E text \in EdgeTexts : Recognize(text)
  \/ \E text \in EdgeTexts, corpus \in Corpora : Extract(text, corpus)

SpecEdge ==
  Init /\ [][NextEdge]_vars

\* the number of calls in a run that fills the tokenizer's cache
MaxCacheCalls ==
  1003

\* tokenizer.tokenize(text) as one call of a run that fills the cache
TokenizeInTurn(text) ==
  /\ calls < MaxCacheCalls
  /\ calls' = calls + 1
  /\ TokenizeReturn(text, tokenize(tokCache, text))
  /\ UNCHANGED <<splitCache, sentCache, nerCache, kwCache, config>>
  /\ UNCHANGED <<hookVars, extraction>>

NextCache ==
  \E text \in CacheTexts(calls) : TokenizeInTurn(text)

SpecCache ==
  Init /\ [][NextCache]_vars

\* the tokenizer called directly between calls to the engines that tokenize
\* through it
NextShared ==
  \/ \E text \in SharedTexts : Tokenize(text)
  \/ \E text \in SharedTexts : Analyze(text)
  \/ \E text \in SharedTexts : Recognize(text)
  \/ TokenizerClearCache

SpecShared ==
  Init /\ [][NextShared]_vars

\* the cache after the array stored under a key has been changed in place
CacheMutated(cache, key, value) ==
  [i \in DOMAIN cache |-> IF cache[i].key = key THEN [key |-> key, value |-> value]
                          ELSE cache[i]]

\* the caller pops the last token off the array tokenize has just returned:
\* on a hit as on a miss that array is the one the cache holds under the key
PopReturned ==
  /\ Call
  /\ ret.op = "tokenize" /\ ret.result # <<>>
  /\ tokCache' = CacheMutated(tokCache, Substring(ret.input, 0, TokenizerKeyLength),
                              SubSeq(ret.result, 1, Len(ret.result) - 1))
  /\ ret' = [op |-> "pop", input |-> ret.input,
             result |-> SubSeq(ret.result, 1, Len(ret.result) - 1), error |-> ""]
  /\ UNCHANGED <<splitCache, sentCache, nerCache, kwCache, config>>
  /\ UNCHANGED <<hookVars, extraction>>

\* a caller of the tokenizer that changes what it was handed
NextAlias ==
  \/ \E text \in TokTexts : Tokenize(text)
  \/ PopReturned
  \/ TokenizerClearCache

SpecAlias ==
  Init /\ [][NextAlias]_vars

(* ---------------------------------------------------------------------- *)
(* The calls to the hook and the steps of generate between its awaits      *)
(* ---------------------------------------------------------------------- *)

\* the variables of the engines, which the hook leaves alone
engineVars ==
  <<tokCache, splitCache, sentCache, nerCache, kwCache, config, ret, calls, extraction>>

\* has the signal with the given number been aborted
Aborted(signal) ==
  signal \in DOMAIN abortControllers /\ abortControllers[signal]

\* the call goes on to the next await of its body
GoTo(c, pc) ==
  generations' = [generations EXCEPT ![c].pc = pc]

\* the call ends in the catch block with an error that is no AbortError
Fail(c, message) ==
  /\ state' = updateState(state, [status |-> "error", error |-> message,
                                  completedAt |-> now])
  /\ GoTo(c, "done")

\* generate(url) up to its first await: an invalid address is rejected at
\* once; otherwise the current request is aborted, a new controller is
\* created, the state starts over and the first stage is shown
Generate(c, url) ==
  /\ generations[c].pc = "ready"
  /\ \A e \in 1..(c - 1) : generations[e].pc # "ready"
  /\ IF url = "" \/ ~isValidYouTubeUrl(url)
     THEN /\ state' = updateState(state, [status |-> "error",
                                          error |-> "Please enter a valid YouTube URL"])
          /\ generations' = [Supersede(generations) EXCEPT ![c].pc = "done"]
          /\ UNCHANGED abortControllers
     ELSE /\ abortControllers' = Append(AbortCurrent(abortControllers), FALSE)
          /\ state' = setStage(updateState(state,
                                 [initialState EXCEPT !.status = "extracting",
                                                      !.progress = 5,
                                                      !.progressMessage = "Starting generation...",
                                                      !.url = url,
                                                      !.startedAt = now]),
                               "extracting")
          /\ generations' = [Supersede(generations) EXCEPT
                               ![c].pc = "delay1",
                               ![c].signal = Len(abortControllers) + 1]
  /\ UNCHANGED <<resets, engineVars, store>>

\* a timer of simulateProgress fires: the next stage is shown, and after the
\* last one the request is sent with the signal of abortControllerRef.current
TimerFires(c) ==
  /\ generations[c].pc \in {"delay1", "delay2", "delay3"}
  /\ ~Aborted(generations[c].signal)
  /\ IF generations[c].pc = "delay1"
     THEN state' = setStage(state, "analyzing") /\ GoTo(c, "delay2")
     ELSE IF generations[c].pc = "delay2"
     THEN state' = setStage(state, "generating") /\ GoTo(c, "delay3")
     ELSE /\ generations' = [generations EXCEPT ![c].pc = "fetch",
                                                ![c].signal = Len(abortControllers)]
          /\ UNCHANGED state
  /\ UNCHANGED <<abortControllers, resets, engineVars, store>>

\* the pending delay, fetch or response.json() rejects with an AbortError:
\* the catch block returns without touching the state
Cancelled(c) ==
  /\ generations[c].pc \in {"delay1", "delay2", "delay3", "fetch", "json"}
  /\ Aborted(generations[c].signal)
  /\ GoTo(c, "done")
  /\ UNCHANGED <<state, abortControllers, resets, engineVars, store>>

\* the response arrives: its body is read next
Responds(c, response) ==
  /\ generations[c].pc = "fetch"
  /\ ~Aborted(generations[c].signal)
  /\ generations' = [generations EXCEPT
                       ![c].pc = IF response.ok THEN "json" ELSE "errorJson",
                       ![c].response = response]
  /\ UNCHANGED <<state, abortControllers, resets, engineVars, store>>

\* the request fails on the network: fetch rejects with a TypeError
FetchFails(c) ==
  /\ generations[c].pc = "fetch"
  /\ ~Aborted(generations[c].signal)
  /\ Fail(c, "Failed to fetch")
  /\ UNCHANGED <<abortControllers, resets, engineVars, store>>

\* the body of an ok response has been read: the scripts are shown, or the
\* body is rejected as invalid
JsonRead(c) ==
  /\ generations[c].pc = "json"
  /\ ~Aborted(generations[c].signal)
  /\ IF "scripts" \in DOMAIN generations[c].response.data
     THEN /\ state' = updateState(state,
                        [status |-> "complete", progress |-> 100,
                         progressMessage |-> "Generation complete!",
                         scripts |-> generations[c].response.data.scripts,
                         viralityScore |-> generations[c].response.data.viralityScore,
                         completedAt |-> now])
          /\ GoTo(c, "done")
     ELSE Fail(c, "Invalid response format from server")
  /\ UNCHANGED <<abortControllers, resets, engineVars, store>>

\* response.json().catch(() => ({})) of a response that is not ok settles: a
\* body that is no JSON, or whose reading was aborted, gives {}; the Error is
\* thrown and caught, and it is no AbortError
ErrorJsonSettles(c) ==
  /\ generations[c].pc = "errorJson"
  /\ Fail(c, HttpErrorMessage(IF Aborted(generations[c].signal)
                                 \/ ~generations[c].response.json
                              THEN <<>> ELSE generations[c].response.data,
                              generations[c].response.status))
  /\ UNCHANGED <<abortControllers, resets, engineVars, store>>

\* reset(): the current request is aborted and the state starts over
Reset ==
  /\ resets < MaxResets
  /\ resets' = resets + 1
  /\ abortControllers' = AbortCurrent(abortControllers)
  /\ state' = initialState
  /\ generations' = Supersede(generations)
  /\ UNCHANGED <<engineVars, store>>

NextHook ==
  \/ \E c \in 1..MaxGenerations, url \in Urls : Generate(c, url)
  \/ \E c \in 1..MaxGenerations : TimerFires(c)
  \/ \E c \in 1..MaxGenerations : Cancelled(c)
  \/ \E c \in 1..MaxGenerations, response \in Responses : Responds(c, response)
  \/ \E c \in 1..MaxGenerations : FetchFails(c)
  \/ \E c \in 1..MaxGenerations : JsonRead(c)
  \/ \E c \in 1..MaxGenerations : ErrorJsonSettles(c)
  \/ Reset

SpecHook ==
  Init /\ [][NextHook]_vars
(* ---------------------------------------------------------------------- *)
(* extract as a sequence of passes of its loops                            *)
(* ---------------------------------------------------------------------- *)

\* the number of draws of the seeding loop that hit an index already used
MaxRedraws ==
  1

\* the vectors the topic clustering of a run of extract works on
WordVectorsOf(run) ==
  createWordVectors(run.clusterTokens,
                    TopicKeywords(Slice(run.combinedKeywords, TopicCandidates)))

\* the result extract builds once kMeansClustering returned the assignment of
\* the vectors to the centroids
ClusteredKeywords(run, cfg, vectors, nearest) ==
  [keywords |-> Slice(run.combinedKeywords, cfg.maxKeywords),
   keyphrases |-> Slice(run.keyphrases, cfg.maxKeyphrases),
   topics |-> formatClusters(ClustersOf(vectors, nearest), vectors, run.clusterTokens),
   statistics |-> run.statistics]

\* the call returns from the topic clustering
ClusteringEnds(nearest) ==
  /\ extraction' = NoExtraction
  /\ \E result \in {ClusteredKeywords(extraction.run, config, extraction.vectors, nearest)} :
       ExtractStore(extraction.text, <<>>, extraction.run, result)

\* after calculate: without vectors kMeansClustering returns at once,
\* otherwise the seeding loop starts
StartSeeding ==
  IF Len(extraction.vectors) = 0
  THEN ClusteringEnds(<<>>)
  ELSE /\ extraction' = [extraction EXCEPT !.pc = "seeding", !.usedIndices = <<>>]
       /\ UNCHANGED <<tokCache, splitCache, kwCache, ret>>

\* calculate starts on the graph of the text; what the call computes outside
\* its loops is fixed by the text and the caches it started with
StartTextRank(text, run, graph) ==
  /\ extraction' = [NoExtraction EXCEPT !.pc = "textrank", !.text = text, !.run = run,
                                        !.graph = graph, !.scores = InitialScores(graph),
                                        !.vectors = WordVectorsOf(run)]
  /\ UNCHANGED <<tokCache, splitCache, kwCache, ret>>

\* extract as far as it goes without a loop: a cached result or a TypeError
\* ends the call at once
ExtractStarts(text, run) ==
  IF run.hit \/ run.error # ""
  THEN /\ extraction' = NoExtraction
       /\ ExtractReturn(text, <<>>, run)
  ELSE StartTextRank(text, run, TextRankGraphOf(run.tokens, config))

\* extract(text) up to the loop of calculate
StartExtract(text) ==
  /\ extraction.pc = "idle"
  /\ calls < MaxTopicCalls
  /\ calls' = calls + 1
  /\ ExtractStarts(text, extractKeywords(kwCache, splitCache, tokCache, text, <<>>, config))
  /\ UNCHANGED <<sentCache, nerCache, config>>
  /\ UNCHANGED hookVars

\* what a pass of calculate leaves: the loop goes on, or it ends and the
\* clustering starts
AfterTextRankPass(pass) ==
  IF TextRankEnds(pass, extraction.iteration)
  THEN StartSeeding
  ELSE /\ extraction' = [extraction EXCEPT !.iteration = @ + 1, !.scores = pass.scores]
       /\ UNCHANGED <<tokCache, splitCache, kwCache, ret>>

\* one pass of the loop of TextRankGraph.calculate
TextRankPass ==
  /\ extraction.pc = "textrank"
  /\ extraction.iteration < maxIterations
  /\ \E pass \in {TextRankSweep(extraction.graph, 1, extraction.scores, 0)} :
       AfterTextRankPass(pass)
  /\ UNCHANGED <<sentCache, nerCache, config, calls>>
  /\ UNCHANGED hookVars

\* the seeding has its k centroids: the k-means loop starts
StartKMeans(vectors, usedIndices) ==
  extraction' = [extraction EXCEPT
                   !.pc = "kmeans", !.usedIndices = usedIndices, !.iter = 0,
                   !.centroids = Tuple([c \in DOMAIN usedIndices |->
                                          vectors[usedIndices[c] + 1].vector])]

\* one pass of the seeding loop draws an index not used yet
DrawUnused(idx) ==
  /\ extraction.pc = "seeding"
  /\ idx \in 0..(Len(extraction.vectors) - 1)
  /\ idx \notin Range(extraction.usedIndices)
  /\ IF Len(extraction.usedIndices) + 1 >= NumCentroids(Len(extraction.vectors))
     THEN StartKMeans(extraction.vectors, Append(extraction.usedIndices, idx))
     ELSE extraction' = [extraction EXCEPT !.usedIndices = Append(@, idx)]
  /\ UNCHANGED <<tokCache, splitCache, sentCache, nerCache, kwCache, config, ret, calls>>
  /\ UNCHANGED hookVars

\* one pass of the seeding loop draws an index already used: nothing is pushed
DrawUsed(idx) ==
  /\ extraction.pc = "seeding"
  /\ idx \in Range(extraction.usedIndices)
  /\ extraction.redraws < MaxRedraws
  /\ extraction' = [extraction EXCEPT !.redraws = @ + 1]
  /\ UNCHANGED <<tokCache, splitCache, sentCache, nerCache, kwCache, config, ret, calls>>
  /\ UNCHANGED hookVars

\* what a pass of the k-means loop leaves: the loop goes on, or it ends and
\* the call returns with the assignment of the pass
AfterKMeansPass(nearest, newCentroids) ==
  IF kMeansEnds(extraction.centroids, newCentroids, extraction.iter)
  THEN ClusteringEnds(nearest)
  ELSE /\ extraction' = [extraction EXCEPT !.iter = @ + 1, !.centroids = newCentroids]
       /\ UNCHANGED <<tokCache, splitCache, kwCache, ret>>

\* one pass of the loop of kMeansClustering
KMeansPass ==
  /\ extraction.pc = "kmeans"
  /\ extraction.iter < kMeansMaxIterations
  /\ \E nearest \in {kMeansAssign(extraction.vectors, extraction.centroids)} :
       \E newCentroids \in {kMeansMove(extraction.vectors, extraction.centroids, nearest)} :
         AfterKMeansPass(nearest, newCentroids)
  /\ UNCHANGED <<sentCache, nerCache, config, calls>>
  /\ UNCHANGED hookVars

NextLoops ==
  \/ \E text \in LoopTexts : StartExtract(text)
  \/ TextRankPass
  \/ \E idx \in 0..(TopicCandidates - 1) : DrawUnused(idx)
  \/ \E idx \in 0..(TopicCandidates - 1) : DrawUsed(idx)
  \/ KMeansPass

SpecLoops ==
  Init /\ [][NextLoops]_vars

\* Math.random() is uniform: an index not used yet keeps being possible and is
\* drawn in the end; the passes of the two bounded loops follow one another
FairLoops ==
  /\ WF_vars(TextRankPass)
  /\ WF_vars(\E idx \in 0..(TopicCandidates - 1) : DrawUnused(idx))
  /\ WF_vars(KMeansPass)

SpecLoopsFair ==
  Init /\ [][NextLoops]_vars /\ FairLoops
(* ---------------------------------------------------------------------- *)
(* Dispatching actions to the store                                        *)
(* ---------------------------------------------------------------------- *)

\* the number of actions dispatched in one run
MaxDispatches ==
  3

\* store.dispatch(action)
Dispatch(action) ==
  /\ calls < MaxDispatches
  /\ calls' = calls + 1
  /\ store' = appReducer(store, action)
  /\ UNCHANGED <<tokCache, splitCache, sentCache, nerCache, kwCache, config, ret,
                 extraction, state, abortControllers, generations, resets>>

\* a GENERATION_* action is dispatched
DispatchGeneration ==
  \E action \in GenerationActions : Dispatch(action)

\* a HISTORY_* action is dispatched
DispatchHistory ==
  \E action \in HistoryActions(store.history.items) : Dispatch(action)

NextStore ==
  \/ DispatchGeneration
  \/ DispatchHistory

SpecStore ==
  Init /\ [][NextStore]_vars
(* ---------------------------------------------------------------------- *)
(* Properties                                                              *)
(* ---------------------------------------------------------------------- *)

\* do the ranges [startChar, endChar) of two entities share a position
Intersect(a, b) ==
  a.startChar < b.endChar /\ b.startChar < a.endChar

\* C1: whatever recognize calls came before on the same recognizer, the list
\* recognize returns holds no two entities whose ranges intersect.
C1_NoOverlappingEntities ==
  ret.op = "recognize" =>
    \A i, j \in DOMAIN ret.result : i # j => ~Intersect(ret.result[i], ret.result[j])

\* a later call has returned several entities for a text whose candidate
\* entities do overlap
C1_Witness ==
  /\ ret.op = "recognize" /\ calls >= 2
  /\ Len(ret.result) >= 2
  /\ LET candidates == PatternEntities(ret.input) \o extractTokenEntities(Tokens(ret.input))
     IN \E i, j \in DOMAIN candidates : i # j /\ Intersect(candidates[i], candidates[j])

RECURSIVE RemoveSpaces(_)
\* the non-whitespace characters of a text, in order
RemoveSpaces(s) ==
  IF Len(s) = 0 THEN ""
  ELSE IF Len(s) = 1 THEN (IF IsSpace(s) THEN "" ELSE s)
  ELSE RemoveSpaces(SubSeq(s, 1, Len(s) \div 2))
       \o RemoveSpaces(SubSeq(s, Len(s) \div 2 + 1, Len(s)))

\* the token spans are increasing and disjoint, each span of the text is the
\* token's text, and the spans together are the text without its whitespace
SpansReproduce(text, tokens) ==
  /\ \A k \in DOMAIN tokens :
       /\ 0 <= tokens[k].startChar /\ tokens[k].startChar < tokens[k].endChar
       /\ tokens[k].endChar <= Len(text)
       /\ Substring(text, tokens[k].startChar, tokens[k].endChar) = tokens[k].text
       /\ k > 1 => tokens[k - 1].endChar <= tokens[k].startChar
  /\ Concat([k \in DOMAIN tokens |-> tokens[k].text]) = RemoveSpaces(text)

\* C2: the tokens tokenize returns for a text have increasing, disjoint spans,
\* each span of the text equals the token's text, and the spans in order are
\* exactly the non-whitespace characters of the text.
C2_TokenSpansReproduceText ==
  ret.op = "tokenize" => SpansReproduce(ret.input, ret.result)

\* the sentences are in order and contiguous from offset 0, and nothing but
\* whitespace follows the last one
SentencesCover(text, sentences) ==
  /\ \A k \in DOMAIN sentences :
       /\ sentences[k].startChar < sentences[k].endChar
       /\ sentences[k].endChar <= Len(text)
       /\ sentences[k].startChar = IF k = 1 THEN 0 ELSE sentences[k - 1].endChar
  /\ LET covered == IF sentences = <<>> THEN 0 ELSE sentences[Len(sentences)].endChar
     IN Trim(Substring(text, covered, Len(text))) = ""

\* C3: the sentences split returns for a text are ordered, disjoint and
\* contiguous from offset 0, and cover the text up to trailing whitespace.
C3_SentencesContiguousAndCovering ==
  (ret.op = "split" /\ ret.error = "") => SentencesCover(ret.input, ret.result)

\* does a sentence end at the period of a title abbreviation that is followed by
\* a capitalized word
EndsAfterTitle(text, sentence) ==
  /\ CharAt(text, sentence.endChar - 1) = "."
  /\ ToLowerCase(getWordBefore(text, sentence.endChar - 1)) \in ABBREVIATIONS_titles
  /\ getNextNonSpace(text, sentence.endChar) \in CharsOf(UpperLetters)

\* C4: split puts no sentence boundary at the period of a title abbreviation
\* that is followed by a capitalized word, and it returns exactly two sentences
\* for "Dr. Smith met Mrs. Jones. They left.".
C4_NoBoundaryAfterTitle ==
  (ret.op = "split" /\ ret.error = "") =>
    /\ \A k \in DOMAIN ret.result : ~EndsAfterTitle(ret.input, ret.result[k])
    /\ ret.input = "Dr. Smith met Mrs. Jones. They left." => Len(ret.result) = 2

\* does some token carry a lemma of the sentiment lexicon
HasLexiconWord(tokens) ==
  \E k \in DOMAIN tokens : ToLowerCase(tokens[k].lemma) \in DOMAIN SENTIMENT_LEXICON

\* C5: for a text without any lexicon word, the empty text included, analyze
\* returns overall 0, positive 0, negative 0, neutral 1 and confidence 0.5.
C5_NoLexiconWordsGivesNeutralHalfConfidence ==
  (ret.op = "analyze" /\ ret.error = "" /\ ~HasLexiconWord(Tokens(ret.input))) =>
    ret.result = [overall |-> Zero, positive |-> Zero, negative |-> Zero,
                  neutral |-> One, confidence |-> Num(1, 2)]

\* the k-th token is scored while a negation window is active
ScoredUnderNegation(tokens, k) ==
  /\ IsScored(tokens[k])
  /\ ScanAfter(tokens, k - 1).negationActive
  /\ ScanAfter(tokens, k - 1).negationScope > 0

\* what the k-th token would add without the negation: base score x intensity x
\* the multiplier current when it is scanned
UnnegatedScore(tokens, k) ==
  LET entry == SENTIMENT_LEXICON[ToLowerCase(tokens[k].lemma)]
  IN Mul(Mul(Num(entry.score, 1), entry.intensity),
         ScanAfter(tokens, k - 1).currentIntensifier)

ScoreInRange(score) ==
  /\ LessEq(Num(-1, 1), score.overall) /\ LessEq(score.overall, One)
  /\ \A x \in {score.positive, score.negative, score.neutral, score.confidence} :
       LessEq(Zero, x) /\ LessEq(x, One)
  /\ score.neutral = Max(Zero, Sub(Sub(One, score.positive), score.negative))

\* C7: every score of analyze and analyzeTokens, and every per-sentence score
\* attached by split, has overall in [-1,1], the other four numbers in [0,1],
\* and neutral = max(0, 1 - positive - negative).
C7_ScoresInRange ==
  /\ (ret.op \in {"analyze", "analyzeTokens"} /\ ret.error = "") => ScoreInRange(ret.result)
  /\ (ret.op = "split" /\ ret.error = "") =>
       \A k \in DOMAIN ret.result : ScoreInRange(ret.result[k].sentiment)

\* C8: no keyword that extract returns is a member of the stop-word set, also
\* when the token it was lemmatized from is not a stop word.
C8_NoKeywordIsStopWord ==
  ret.op = "extract" /\ ret.error = "" =>
    \A k \in DOMAIN ret.result.keywords : ret.result.keywords[k].keyword \notin STOP_WORDS

\* is the sequence in order of non-increasing score
NonIncreasing(items) ==
  \A k \in 1..(Len(items) - 1) : items[k].score >= items[k + 1].score

\* C9: the keywords that extract returns are in order of non-increasing score,
\* and so are the keyphrases, after the merge and the truncation to the
\* configured maxima.
C9_KeywordsAndKeyphrasesSorted ==
  ret.op = "extract" /\ ret.error = "" =>
    /\ NonIncreasing(ret.result.keywords)
    /\ NonIncreasing(ret.result.keyphrases)
    /\ Len(ret.result.keywords) <= config.maxKeywords
    /\ Len(ret.result.keyphrases) <= config.maxKeyphrases

\* a call has returned several keywords, fewer than the merged keywords of its
\* text, and the merge met them in another order than that of their scores
C9_Witness ==
  /\ ret.op = "extract" /\ ret.error = ""
  /\ Len(ret.result.keywords) = config.maxKeywords
  /\ LET tokens == Tokens(ret.input)
         sets == <<extractTextRank(tokens, config), extractTFIDF(tokens, <<>>),
                   extractNGrams(tokens)>>
     IN /\ Len(MergedKeywords(sets)) > Len(ret.result.keywords)
        /\ ~NonIncreasing(MergedKeywords(sets))
        /\ ret.result.keywords = Slice(combineKeywords(sets), config.maxKeywords)

\* the keyword ranking of extract(text, corpus) as the first call of a run
FirstCallRanking(text, corpus, cfg) ==
  LET run == extractKeywords(<<>>, <<>>, <<>>, text, corpus, cfg)
  IN IF run.error # "" THEN <<>> ELSE Slice(run.combinedKeywords, cfg.maxKeywords)

\* C10: two runs of extract with the same text and the same corpus return the
\* same keyword ranking: a call returns the keywords, in the order and with the
\* scores, that the same call returns as the first call of a run.
C10_SameInputSameRanking ==
  ret.op = "extract" /\ ret.error = "" =>
    ret.result.keywords = FirstCallRanking(ret.input, ret.corpus, config)

\* the entities of a type among those returned
OfType(entities, type) ==
  SelectSeq(entities, LAMBDA e : e.type = type)

\* exactly one entity of the type is returned, it has the given text, and the
\* input at [startChar, endChar) is that text
OneEntity(text, entities, type, entityText) ==
  /\ Len(OfType(entities, type)) = 1
  /\ OfType(entities, type)[1].text = entityText
  /\ Substring(text, OfType(entities, type)[1].startChar,
               OfType(entities, type)[1].endChar) = entityText

StatisticsDefined(statistics) ==
  \A x \in {statistics.vocabularyRichness, statistics.keywordDensity,
            statistics.keywordCoverage, statistics.avgWordsPerSentence} : ~IsNaN(x)

\* C12: for an empty, whitespace-only or punctuation-only text no engine
\* throws; tokenize("") returns no token, split("") no sentence, recognize no
\* entity, and extract returns no keyword, no keyphrase and no topic, with
\* every ratio of the statistics a number.
C12_NearEmptyInputs ==
  (ret.op \in {"tokenize", "split", "analyze", "recognize", "extract"}
   /\ ret.input \in NearEmptyTexts) =>
    /\ ret.error = ""
    /\ (ret.op \in {"tokenize", "split"} /\ ret.input = "") => ret.result = <<>>
    /\ ret.op = "recognize" => ret.result = <<>>
    /\ ret.op = "extract" =>
         /\ ret.result.keywords = <<>>
         /\ ret.result.keyphrases = <<>>
         /\ ret.result.topics = <<>>
         /\ StatisticsDefined(ret.result.statistics)

\* C13: after any sequence of calls, the first of which may be on the empty
\* text, no cache holds more entries than its cap: 1000 for the tokenizer and
\* the sentiment analyzer, 500 for the splitter and the recognizer, 200 for the
\* keyword extractor.
C13_CacheWithinCap ==
  /\ Len(tokCache) <= TokenizerMaxCacheSize
  /\ Len(sentCache) <= SentimentMaxCacheSize
  /\ Len(splitCache) <= SplitterMaxCacheSize
  /\ Len(nerCache) <= NerMaxCacheSize
  /\ Len(kwCache) <= KeywordMaxCacheSize

\* the keys of a cache in insertion order
CacheKeys(cache) ==
  [i \in DOMAIN cache |-> cache[i].key]

\* C14: a miss of tokenize while the cache is at its cap evicts exactly one
\* entry, the one inserted earliest, and appends the new key; a hit leaves the
\* cache, and so the order of eviction, as it was.
C14_FifoEviction ==
  [][ret'.op = "tokenize" =>
        LET cacheKey == Substring(ret'.input, 0, TokenizerKeyLength)
        IN /\ CacheHas(tokCache, cacheKey) => tokCache' = tokCache
           /\ (~CacheHas(tokCache, cacheKey) /\ Len(tokCache) >= TokenizerMaxCacheSize) =>
                CacheKeys(tokCache') = Append(Tail(CacheKeys(tokCache)), cacheKey)]_vars

\* C15: what a call on the sentiment analyzer or on the recognizer returns is
\* fixed by its text and by the calls made before on that same instance,
\* whatever was called on the tokenizer: it returns what it would return with
\* a tokenizer that has seen no call.
C15_NoSharedState ==
  [][/\ ret'.op = "analyze" =>
          /\ ret'.result = analyze(sentCache, <<>>, ret'.input).result
          /\ ret'.error = analyze(sentCache, <<>>, ret'.input).error
     /\ ret'.op = "recognize" =>
          ret'.result = recognize(nerCache, <<>>, ret'.input).result]_vars

\* C16: a caller that changes a value it was handed cannot change what a later
\* call returns: whatever the caller did to the arrays returned before,
\* tokenize returns for a text shorter than the cache key the tokens of that
\* text.
C16_ResultsNotAliased ==
  (ret.op = "tokenize" /\ Len(ret.input) < TokenizerKeyLength) =>
    ret.result = Tokens(ret.input)

\* C17: whatever tokenize calls came before on the same tokenizer, also on a
\* text with the same first 100 characters, tokenize(t) returns the tokens a
\* tokenizer that has seen no call returns for t.
C17_TokenizerCacheTransparent ==
  ret.op = "tokenize" => ret.result = TokenizeFresh(ret.input)

\* is the token a negation word
IsNegation(token) ==
  ToLowerCase(token.lemma) \in NEGATIONS \/ ToLowerCase(token.text) \in NEGATIONS

\* the position of the most recent negation word before the k-th token, 0 when
\* there is none
LastNegation(tokens, k) ==
  IF \E j \in 1..(k - 1) : IsNegation(tokens[j])
  THEN CHOOSE j \in 1..(k - 1) :
         IsNegation(tokens[j]) /\ \A i \in (j + 1)..(k - 1) : ~IsNegation(tokens[i])
  ELSE 0

\* how many alphabetic tokens lie after position j up to and including k
AlphaSince(tokens, j, k) ==
  Cardinality({i \in (j + 1)..k : tokens[i].isAlpha})

\* C18: a lexicon word is scored with the factor -0.5 exactly when a negation
\* word came before it and at most 3 alphabetic tokens, the word itself and
\* any intensifier or diminisher included, have been scanned since the most
\* recent one.
C18_NegationWindowOfThree ==
  (ret.op = "analyzeTokens" /\ ret.error = "") =>
    \A k \in DOMAIN ret.input :
      IsScored(ret.input[k]) =>
        (ScoredUnderNegation(ret.input, k) <=>
           /\ LastNegation(ret.input, k) > 0
           /\ AlphaSince(ret.input, LastNegation(ret.input, k), k) <= NegationScope)

\* C19: once a newer call to generate or a call to reset has started, a call
\* to generate that was in flight makes no further update to the state of the
\* hook: no stage, no result and no error.
C19_SupersededCallIsSilent ==
  [][\A c \in 1..MaxGenerations :
       (generations[c].superseded /\ generations'[c].pc # generations[c].pc) =>
         state' = state]_vars

\* the URL spans of a text: http://, https:// or www. up to the next whitespace
UrlSpans(text) ==
  MatchAll(urlRegex, text, 0, FALSE)

\* does a sentence end, before the end of the text, right after a period that
\* lies inside a URL span
EndsInsideUrl(text, sentence) ==
  /\ sentence.endChar < Len(text)
  /\ CharAt(text, sentence.endChar - 1) = "."
  /\ \E k \in DOMAIN UrlSpans(text) :
       /\ UrlSpans(text)[k][1] <= sentence.endChar - 1
       /\ sentence.endChar - 1 < UrlSpans(text)[k][2]

\* C21: split puts no sentence boundary at a period that lies inside a URL
\* span, whatever character follows the period.
C21_NoBoundaryInsideUrl ==
  (ret.op = "split" /\ ret.error = "") =>
    \A k \in DOMAIN ret.result : ~EndsInsideUrl(ret.input, ret.result[k])

\* does an offset lie in the middle of three consecutive periods
InsideEllipsis(text, offset) ==
  \E i \in 0..(Len(text) - 3) :
    /\ Substring(text, i, i + 3) = "..."
    /\ i < offset /\ offset < i + 3

\* C22: no period of an ellipsis followed by more text is a sentence boundary:
\* no sentence split returns starts or ends in the middle of the three periods,
\* and split("Wait... what") returns one sentence.
C22_NoBoundaryInsideEllipsis ==
  (ret.op = "split" /\ ret.error = "") =>
    /\ \A k \in DOMAIN ret.result :
         /\ ~InsideEllipsis(ret.input, ret.result[k].startChar)
         /\ ~InsideEllipsis(ret.input, ret.result[k].endChar)
    /\ ret.input = "Wait... what" => Len(ret.result) = 1

\* is the fraction a number between 0 and 1
InUnitInterval(x) ==
  LessEq(Zero, x) /\ LessEq(x, One)

\* C23: analyzeEmotions returns a primary emotion, and a secondary one when
\* there is one, out of the 16 values of EmotionCategory, and its emotions
\* mapping holds a value in [0, 1] for the primary emotion, also for a text
\* without any lexicon word.
C23_EmotionsWithinCategories ==
  (ret.op = "analyzeEmotions" /\ ret.error = "") =>
    /\ ret.result.primary \in EmotionCategory
    /\ ret.result.secondary # Undefined => ret.result.secondary \in EmotionCategory
    /\ ret.result.primary \in DOMAIN ret.result.emotions
    /\ InUnitInterval(ret.result.emotions[ret.result.primary])

\* a keyword's score in a method's list divided by the greatest score of the
\* list, 0 when the method did not produce the keyword
MethodShare(keywords, keyword) ==
  LET I == {k \in DOMAIN keywords : keywords[k].keyword = keyword}
  IN IF I = {} THEN 0
     ELSE FxDiv(keywords[Least(I)].score,
                MaxOf([k \in DOMAIN keywords |-> keywords[k].score], Fx(1, 1000)))

\* the sum of the shares over the methods, times 1 + 0.3 for every method
\* beyond the first that produced the keyword
BoostedShares(sets, keyword) ==
  FxMul(Sum([s \in DOMAIN sets |-> MethodShare(sets[s], keyword)]),
        Fx(1, 1) + (Cardinality({s \in DOMAIN sets :
                       \E k \in DOMAIN sets[s] : sets[s][k].keyword = keyword}) - 1)
                   * Fx(3, 10))

\* what TextRank, RAKE, TF-IDF and the n-grams produce for a text and a corpus
\* on a tokenizer that has seen neither
FourMethods(text, corpus, cfg) ==
  <<IF cfg.useTextRank THEN extractTextRank(Tokens(text), cfg) ELSE <<>>,
    IF cfg.useRake THEN extractRake(text, cfg) ELSE <<>>,
    IF cfg.useTFIDF
      THEN extractTFIDF(Tokens(text), [k \in DOMAIN corpus |-> Tokens(corpus[k])])
      ELSE <<>>,
    IF cfg.includeNGrams THEN extractNGrams(Tokens(text)) ELSE <<>>>>

\* every keyword returned has the score the four lists give it
ScoresMerge(keywords, sets) ==
  \A k \in DOMAIN keywords : keywords[k].score = BoostedShares(sets, keywords[k].keyword)

\* C24: the score of a keyword extract returns is the sum, over the methods
\* among TextRank, RAKE, TF-IDF and n-gram that produced it, of its score
\* divided by the method's greatest score, times 1 + 0.3 x (methodCount - 1).
C24_MergedScoreOverFourMethods ==
  (ret.op = "extract" /\ ret.error = "") =>
    ScoresMerge(ret.result.keywords, FourMethods(ret.input, ret.corpus, config))

\* how often a keyword stands in the keyword lists of the topics
TopicOccurrences(topics, keyword) ==
  Sum([t \in DOMAIN topics |-> Count(topics[t].keywords, keyword)])

\* the topics partition the candidates: at most 5 topics, none without
\* keywords, every candidate in one topic once, and nothing but candidates
PartitionsCandidates(topics, candidates) ==
  /\ Len(topics) <= 5
  /\ \A t \in DOMAIN topics : topics[t].keywords # <<>>
  /\ \A k \in DOMAIN candidates : TopicOccurrences(topics, candidates[k]) = 1
  /\ Sum([t \in DOMAIN topics |-> Len(topics[t].keywords)]) = Len(candidates)

\* the keywords the topic clustering of a run of extract starts from
CandidatesOf(run) ==
  TopicKeywords(Slice(run.combinedKeywords, TopicCandidates))

\* C25: whatever indices the seeding draws, extract returns at most 5 topics,
\* none of them empty, and every one of the top 30 merged keywords of its text
\* stands in the keywords of exactly one topic.
C25_TopicsPartitionCandidates ==
  (ret.op = "extract" /\ ret.error = "") =>
    PartitionsCandidates(ret.result.topics,
      CandidatesOf(extractKeywords(<<>>, <<>>, <<>>, ret.input, ret.corpus, config)))

\* a call has clustered more keywords than there are centroids: 5 topics, one
\* of them with several keywords
C25_Witness ==
  /\ ret.op = "extract" /\ ret.error = ""
  /\ Len(ret.result.topics) = 5
  /\ \E t \in DOMAIN ret.result.topics : Len(ret.result.topics[t].keywords) >= 2
  /\ Len(FirstCallRanking(ret.input, ret.corpus, DEFAULT_CONFIG)) > 5
(* ---------------------------------------------------------------------- *)
(* C26                                                                     *)
(* ---------------------------------------------------------------------- *)

\* the loops of the call in progress are within their limits
LoopsWithinLimits ==
  /\ extraction.iteration < maxIterations
  /\ extraction.iter < kMeansMaxIterations
  /\ Len(extraction.usedIndices) <= NumCentroids(Len(extraction.vectors))
  /\ extraction.pc \in {"seeding", "kmeans"} =>
       NumCentroids(Len(extraction.vectors)) <= Len(extraction.vectors)
  /\ Cardinality(Range(extraction.usedIndices)) = Len(extraction.usedIndices)

\* C26: every call of extract runs to completion: the loop of calculate makes
\* fewer than 100 further passes or stops on convergence, the k-means loop
\* makes fewer than 50 further passes or stops on convergence, the seeding
\* draws at most k distinct indices with k at most the number of vectors, and
\* a call in progress returns in the end
C26_ExtractRunsToCompletion ==
  /\ []LoopsWithinLimits
  /\ (extraction.pc # "idle") ~> (extraction.pc = "idle")

\* a call that has passed calculate in several passes and the seeding with a
\* repeated draw, and is in the k-means loop with fewer centroids than the
\* five topics asked for
C26_Witness ==
  /\ extraction.pc = "kmeans"
  /\ extraction.iteration >= 2
  /\ extraction.redraws >= 1
  /\ Len(extraction.centroids) = Len(extraction.vectors)
  /\ Len(extraction.centroids) \in 2..4
(* ---------------------------------------------------------------------- *)
(* C27                                                                     *)
(* ---------------------------------------------------------------------- *)

\* are the tokens the elements of the parent sequence from some position on,
\* one after the other
IsSliceOf(tokens, parent) ==
  \E first \in 0..(Len(parent) - Len(tokens)) :
    \A i \in DOMAIN tokens : tokens[i] = parent[first + i]

\* C27: the tokens of each sentence split(text) returns are a contiguous slice
\* of tokenize(text): the same tokens in the same order, their index and their
\* offsets being those in the whole text
C27_SentenceTokensSliceOfText ==
  (ret.op = "split" /\ ret.error = "") =>
    \A k \in DOMAIN ret.result : IsSliceOf(ret.result[k].tokens, Tokens(ret.input))
(* ---------------------------------------------------------------------- *)
(* C28                                                                     *)
(* ---------------------------------------------------------------------- *)

\* is the result, the randomly seeded topics apart, what a run of extract
\* leaves
ResultOfRun(result, run, cfg) ==
  /\ result.keywords = Slice(run.combinedKeywords, cfg.maxKeywords)
  /\ result.keyphrases = Slice(run.keyphrases, cfg.maxKeyphrases)
  /\ result.statistics = run.statistics

\* what a fresh KeywordExtractor computes for the text and the corpus
FreshRun(text, corpus, cfg) ==
  extractKeywords(<<>>, <<>>, <<>>, text, corpus, cfg)

\* C28: the result of extract(text, corpus) depends on the corpus passed: a
\* call of extract on a text right after a call on the same text with another
\* corpus returns what a fresh KeywordExtractor computes for the text and the
\* corpus of the second call
C28_ResultFollowsCorpus ==
  [][(/\ ret.op = "extract" /\ ret.error = ""
      /\ ret'.op = "extract" /\ ret'.error = ""
      /\ ret'.input = ret.input
      /\ ret'.corpus # ret.corpus)
       => ResultOfRun(ret'.result, FreshRun(ret'.input, ret'.corpus, config'), config')]_vars
(* ---------------------------------------------------------------------- *)
(* C29                                                                     *)
(* ---------------------------------------------------------------------- *)

\* a generation state with status 'complete' holds no error
CompleteWithoutError(generation) ==
  generation.status = "complete" => generation.error = null

\* C29: whenever the status of the generation is 'complete' its error is null,
\* in the state of the hook after any calls to generate and reset and in the
\* generation slice of the store after any GENERATION_* actions
C29_CompleteHasNoError ==
  /\ CompleteWithoutError(state)
  /\ CompleteWithoutError(store.generation)
(* ---------------------------------------------------------------------- *)
(* C30                                                                     *)
(* ---------------------------------------------------------------------- *)

\* C30: after any HISTORY_ADD_ITEM, HISTORY_REMOVE_ITEM, HISTORY_TOGGLE_FAVORITE
\* and HISTORY_CLEAR actions, the items added having distinct ids,
\* history.pagination.total is the number of items of history.items and is
\* never negative
C30_TotalCountsItems ==
  /\ store.history.pagination.total = Len(store.history.items)
  /\ store.history.pagination.total >= 0

\* C20: every entity returned by recognize(text) has as its text the input at
\* [startChar, endChar), for pattern entities and for capitalized runs, also
\* when the tokens of a run are separated by several spaces.
C20_EntityTextIsSubstring ==
  ret.op = "recognize" =>
    \A k \in DOMAIN ret.result :
      Substring(ret.input, ret.result[k].startChar, ret.result[k].endChar)
        = ret.result[k].text

====
